---------------------------- MODULE Spec2Model ----------------------------
(***************************************************************************)
(* The bug-triage scoring engine (MLBugTriager, src/ml_bug_triager.py) and *)
(* its batch caller (PDFParser._assign_bugs_with_ml, src/pdf_parser.py).   *)
(*                                                                         *)
(* Representation.                                                         *)
(*  - A Python str that the code lower-cases, searches, concatenates or    *)
(*    formats is a sequence of one-character strings, so that substring    *)
(*    search and lower() are computed, not assumed.  Developer names and   *)
(*    severities are only compared and used as dictionary keys; they are   *)
(*    TLA+ strings.                                                        *)
(*  - A Python dict with optional keys (a raw bug or developer record) is  *)
(*    a function whose DOMAIN holds the keys present; dict.get(k, d) is    *)
(*    Get(rec, k, d).                                                      *)
(*  - Floats are exact rationals in fixed point: scores in units of        *)
(*    1/ScoreOne, confidences in units of 1/ConfOne, complexities and      *)
(*    rounded confidences in hundredths.  The rounding error of IEEE       *)
(*    doubles is modelled where it decides a result: in round(c, 2) of a   *)
(*    confidence that is exactly halfway between two hundredths.           *)
(***************************************************************************)
EXTENDS Integers, Sequences, FiniteSets

(***************************************************************************)
(* The fixed vocabularies of _extract_technical_keywords (tech_patterns),  *)
(* in the order of the source.                                             *)
(***************************************************************************)
languages ==
    << <<"p","y","t","h","o","n">>,
       <<"j","a","v","a">>,
       <<"j","a","v","a","s","c","r","i","p","t">>,
       <<"t","y","p","e","s","c","r","i","p","t">>,
       <<"s","q","l">>,
       <<"c","+","+">>,
       <<"c","#">>,
       <<"r","u","b","y">>,
       <<"p","h","p">>,
       <<"g","o">> >>
frameworks ==
    << <<"r","e","a","c","t">>,
       <<"a","n","g","u","l","a","r">>,
       <<"v","u","e">>,
       <<"d","j","a","n","g","o">>,
       <<"f","l","a","s","k">>,
       <<"s","p","r","i","n","g">>,
       <<"n","o","d","e">>,
       <<"e","x","p","r","e","s","s">>,
       <<"f","a","s","t","a","p","i">> >>
databases ==
    << <<"p","o","s","t","g","r","e","s","q","l">>,
       <<"m","y","s","q","l">>,
       <<"m","o","n","g","o","d","b">>,
       <<"r","e","d","i","s">>,
       <<"e","l","a","s","t","i","c","s","e","a","r","c","h">>,
       <<"c","a","s","s","a","n","d","r","a">> >>
cloud ==
    << <<"a","w","s">>,
       <<"a","z","u","r","e">>,
       <<"g","c","p">>,
       <<"d","o","c","k","e","r">>,
       <<"k","u","b","e","r","n","e","t","e","s">>,
       <<"t","e","r","r","a","f","o","r","m">> >>
concepts ==
    << <<"a","p","i">>,
       <<"r","e","s","t">>,
       <<"g","r","a","p","h","q","l">>,
       <<"a","u","t","h","e","n","t","i","c","a","t","i","o","n">>,
       <<"a","u","t","h","o","r","i","z","a","t","i","o","n">>,
       <<"s","e","c","u","r","i","t","y">>,
       <<"p","e","r","f","o","r","m","a","n","c","e">>,
       <<"m","e","m","o","r","y">>,
       <<"c","r","a","s","h">> >>

(***************************************************************************)
(* String literals of the source and of the inputs.                        *)
(***************************************************************************)
S_empty == <<>>
S_Login_broken == <<"L","o","g","i","n"," ","b","r","o","k","e","n">>
S_users_cannot_authenticate == <<"u","s","e","r","s"," ","c","a","n","n","o","t"," ","a","u","t","h","e","n","t","i","c","a","t","e"," ","v","i","a"," ","O","A","u","t","h">>
S_NullPointerException == <<"N","u","l","l","P","o","i","n","t","e","r","E","x","c","e","p","t","i","o","n">>
S_API_crash == <<"A","P","I"," ","c","r","a","s","h">>
S_Python_REST_service_fails == <<"P","y","t","h","o","n"," ","R","E","S","T"," ","s","e","r","v","i","c","e"," ","f","a","i","l","s">>
S_Traceback == <<"T","r","a","c","e","b","a","c","k">>
S_Slow_page == <<"S","l","o","w"," ","p","a","g","e">>
S_Payments == <<"P","a","y","m","e","n","t","s">>
S_reports == <<"r","e","p","o","r","t","s">>
S_Reports == <<"R","e","p","o","r","t","s">>
S_Auth == <<"A","u","t","h">>
S_security_authentication == <<"s","e","c","u","r","i","t","y",","," ","a","u","t","h","e","n","t","i","c","a","t","i","o","n">>
S_Python_REST_APIs == <<"P","y","t","h","o","n",","," ","R","E","S","T"," ","A","P","I","s">>
S_Reports_module == <<"R","e","p","o","r","t","s"," ","m","o","d","u","l","e">>
S_Java == <<"J","a","v","a">>
S_Fixed_several_Auth_crashes == <<"F","i","x","e","d"," ","s","e","v","e","r","a","l"," ","A","u","t","h"," ","c","r","a","s","h","e","s">>
S_Go == <<"G","o">>
S_several == <<"s","e","v","e","r","a","l">>
S_significantly == <<"s","i","g","n","i","f","i","c","a","n","t","l","y">>
S_General == <<"G","e","n","e","r","a","l">>
S_Expertise == <<"E","x","p","e","r","t","i","s","e",":"," ">>
S_comma == <<","," ">>
S_semicolon == <<";"," ">>
S_Module_expert == <<"M","o","d","u","l","e"," ","e","x","p","e","r","t",":"," ">>
S_Available_capacity == <<"A","v","a","i","l","a","b","l","e"," ","c","a","p","a","c","i","t","y">>
S_Senior_dev == <<"S","e","n","i","o","r"," ","d","e","v"," ","f","o","r"," ","c","r","i","t","i","c","a","l"," ","b","u","g">>
S_High_success_rate == <<"H","i","g","h"," ","s","u","c","c","e","s","s"," ","r","a","t","e">>
S_General_assignment == <<"G","e","n","e","r","a","l"," ","a","s","s","i","g","n","m","e","n","t"," ","b","a","s","e","d"," ","o","n"," ","a","v","a","i","l","a","b","i","l","i","t","y">>
S_No_suitable_developer == <<"N","o"," ","s","u","i","t","a","b","l","e"," ","d","e","v","e","l","o","p","e","r"," ","f","o","u","n","d">>
S_AI_based_assignment == <<"A","I","-","b","a","s","e","d"," ","a","s","s","i","g","n","m","e","n","t">>

(***************************************************************************)
(* Text.                                                                   *)
(***************************************************************************)
Range(s) == {s[i] : i \in DOMAIN s}

UpperChars ==
    <<"A","B","C","D","E","F","G","H","I","J","K","L","M",
      "N","O","P","Q","R","S","T","U","V","W","X","Y","Z">>

LowerChars ==
    <<"a","b","c","d","e","f","g","h","i","j","k","l","m",
      "n","o","p","q","r","s","t","u","v","w","x","y","z">>

\* str.lower() on one character.
LowerChar(c) ==
    IF \E i \in DOMAIN UpperChars : UpperChars[i] = c
    THEN LowerChars[CHOOSE i \in DOMAIN UpperChars : UpperChars[i] = c]
    ELSE c

\* str.lower()
lower(s) == [i \in 1..Len(s) |-> LowerChar(s[i])]

\* Python's `sub in text` for strings.
Contains(text, sub) ==
    \E i \in 0..(Len(text) - Len(sub)) :
        \A j \in 1..Len(sub) : text[i + j] = sub[j]

\* dict.get(key, default)
Get(d, key, default) == IF key \in DOMAIN d THEN d[key] ELSE default

\* f"{a} {b}"
Spaced(a, b) == a \o <<" ">> \o b

(***************************************************************************)
(* Keyword Extractor: MLBugTriager._extract_technical_keywords.            *)
(* tech_patterns is the five vocabularies in the dict's order.  The code   *)
(* returns list(set(found_keywords)); the model returns the set, and the   *)
(* order in which a set of keywords is listed is hashOrder's business.     *)
(***************************************************************************)
tech_patterns == languages \o frameworks \o databases \o cloud \o concepts

\* A variant that matches a keyword by its first four characters.
_extract_technical_keywords_stem(text) ==
    LET text_lower == lower(text)
    IN  {tech_patterns[i] : i \in {j \in DOMAIN tech_patterns :
                                      Contains(text_lower,
                                               SubSeq(tech_patterns[j], 1,
                                                      IF Len(tech_patterns[j]) < 4
                                                      THEN Len(tech_patterns[j])
                                                      ELSE 4))}}

\* A variant that searches the text as given.
_extract_technical_keywords_cased(text) ==
    {tech_patterns[i] : i \in {j \in DOMAIN tech_patterns :
                                  Contains(text, tech_patterns[j])}}

_extract_technical_keywords(text) ==
    LET text_lower == lower(text)
    IN  {tech_patterns[i] : i \in {j \in DOMAIN tech_patterns :
                                      Contains(text_lower, tech_patterns[j])}}

(***************************************************************************)
(* Complexity Estimator: MLBugTriager._calculate_bug_complexity, in        *)
(* hundredths.                                                             *)
(***************************************************************************)
Min(a, b) == IF a <= b THEN a ELSE b

\* A variant whose default is the weight of Low.
severity_weights_default_low(severity) ==
    CASE severity = "Critical" -> 100
      [] severity = "High"     -> 75
      [] severity = "Medium"   -> 50
      [] severity = "Low"      -> 25
      [] OTHER                 -> 25

\* severity_weights.get(severity, 0.5)
severity_weights(severity) ==
    CASE severity = "Critical" -> 100
      [] severity = "High"     -> 75
      [] severity = "Medium"   -> 50
      [] severity = "Low"      -> 25
      [] OTHER                 -> 50

\* A variant whose length bands begin at 200 and 500 characters.
_calculate_bug_complexity_from(bug_data) ==
    LET sev         == severity_weights(Get(bug_data, "severity", "Medium"))
        desc_length == Len(Get(bug_data, "description", <<>>))
        len_part    == IF desc_length >= 500 THEN 30
                       ELSE IF desc_length >= 200 THEN 15 ELSE 0
        trace_part  == IF Len(Get(bug_data, "stack_trace", <<>>)) > 0
                       THEN 20 ELSE 0
        text        == Spaced(Get(bug_data, "title", <<>>),
                              Get(bug_data, "description", <<>>))
        tech_keywords == _extract_technical_keywords(text)
        kw_part     == Min(Cardinality(tech_keywords) * 10, 30)
    IN  Min(sev + len_part + trace_part + kw_part, 100)

_calculate_bug_complexity(bug_data) ==
    LET sev         == severity_weights(Get(bug_data, "severity", "Medium"))
        desc_length == Len(Get(bug_data, "description", <<>>))
        len_part    == IF desc_length > 500 THEN 30
                       ELSE IF desc_length > 200 THEN 15 ELSE 0
        trace_part  == IF Len(Get(bug_data, "stack_trace", <<>>)) > 0
                       THEN 20 ELSE 0
        text        == Spaced(Get(bug_data, "title", <<>>),
                              Get(bug_data, "description", <<>>))
        tech_keywords == _extract_technical_keywords(text)
        kw_part     == Min(Cardinality(tech_keywords) * 10, 30)
    IN  Min(sev + len_part + trace_part + kw_part, 100)

(***************************************************************************)
(* Fixed point.  ScoreOne is the score 1.0; with it every score the model  *)
(* computes is a whole number for bugs of up to six keywords (the ratio    *)
(* overlap/len(bug_keywords) has a denominator of at most 6).  ConfOne is  *)
(* the confidence 1.0.                                                     *)
(***************************************************************************)
ScoreOne == 1000 * 60
ConfOne  == 100 * ScoreOne

\* max_load = 10  # Maximum concurrent bugs
max_load == 10

\* A rational num/den in lowest terms, as <<num, den>>.
RECURSIVE Gcd(_, _)
Gcd(a, b) == IF b = 0 THEN a ELSE Gcd(b, a % b)

Ratio(num, den) ==
    LET g == Gcd(num, den) IN IF g = 0 THEN <<num, den>> ELSE <<num \div g, den \div g>>

\* {'avg_resolution_time': 0, 'success_rate': 0.8}
DefaultPerformance ==
    [avg_resolution_time |-> Ratio(0, 1), success_rate |-> Ratio(4, 5)]

\* round(confidence, 2): a confidence in units of 1/ConfOne to hundredths,
\* to the nearest.  Where the exact value lies halfway between two
\* hundredths, the double the code holds lies just below or just above it,
\* on which side depends on its rounding error: up says on which.
IsTie(c) == 2 * (c % ScoreOne) = ScoreOne

Round2(c, up) ==
    LET q == c \div ScoreOne
        r == c % ScoreOne
    IN  IF 2 * r < ScoreOne THEN q
        ELSE IF 2 * r > ScoreOne THEN q + 1
        ELSE IF up THEN q + 1 ELSE q

\* sep.join(parts)
RECURSIVE Join(_, _)
Join(sep, parts) ==
    IF parts = <<>> THEN <<>>
    ELSE IF Len(parts) = 1 THEN parts[1]
    ELSE parts[1] \o sep \o Join(sep, Tail(parts))

\* seq[:n]
Prefix(seq, n) == SubSeq(seq, 1, Min(n, Len(seq)))

(***************************************************************************)
(* MLBugTriager.extract_features_from_bug                                  *)
(***************************************************************************)
extract_features_from_bug(bug_data) ==
    LET title       == Get(bug_data, "title", <<>>)
        description == Get(bug_data, "description", <<>>)
        severity    == Get(bug_data, "severity", "Medium")
        component   == Get(bug_data, "component", S_General)
        labels      == Get(bug_data, "labels", <<>>)
        stack_trace == Get(bug_data, "stack_trace", <<>>)
        combined_text ==
            Spaced(Spaced(Spaced(title, description), labels), stack_trace)
    IN  [text             |-> combined_text,
         title            |-> title,
         description      |-> description,
         severity         |-> severity,
         component        |-> component,
         labels           |-> labels,
         tech_keywords    |-> _extract_technical_keywords(combined_text),
         complexity_score |-> _calculate_bug_complexity(bug_data),
         text_length      |-> Len(combined_text),
         has_stack_trace  |-> Len(stack_trace) > 0]

(***************************************************************************)
(* What MLBugTriager.build_developer_profiles derives from one developer   *)
(* record alone (the loop body, lines 144-168).                            *)
(***************************************************************************)
Expertise(dev) ==
    LET name          == Get(dev, "name", "")
        skills        == lower(Get(dev, "skills", <<>>))
        contributions == lower(Get(dev, "contributions", <<>>))
        modules       == Get(dev, "modules", <<>>)
        combined_text == Spaced(skills, contributions)
        tech_keywords == _extract_technical_keywords(combined_text)
        expertise_domains ==
            tech_keywords \cup {lower(modules[i]) : i \in DOMAIN modules}
        experience_level ==
            IF Contains(contributions, S_several)
               \/ Contains(contributions, S_significantly)
            THEN "senior" ELSE "mid"
    IN  [name              |-> name,
         skills            |-> skills,
         modules           |-> modules,
         expertise_domains |-> expertise_domains,
         experience_level  |-> experience_level]

(***************************************************************************)
(* Inputs.                                                                 *)
(***************************************************************************)
Bug_login ==
    [title       |-> S_Login_broken,
     description |-> S_users_cannot_authenticate,
     severity    |-> "Critical",
     stack_trace |-> S_NullPointerException]

Bug_api ==
    [title       |-> S_API_crash,
     description |-> S_Python_REST_service_fails,
     severity    |-> "High",
     component   |-> S_Payments,
     labels      |-> S_empty,
     stack_trace |-> S_Traceback]

Bug_slow ==
    [title       |-> S_Slow_page,
     description |-> S_empty,
     severity    |-> "Low",
     component   |-> S_reports,
     labels      |-> S_empty,
     stack_trace |-> S_empty]

Dev_Frank ==
    [name |-> "Frank", skills |-> S_security_authentication, modules |-> <<S_Auth>>]

Dev_Tina ==
    [name |-> "Tina", skills |-> S_Python_REST_APIs,
     contributions |-> S_Reports_module, modules |-> <<S_Reports>>]

Dev_Tom ==
    [name |-> "Tom", skills |-> S_Python_REST_APIs,
     contributions |-> S_Reports_module, modules |-> <<S_Reports>>]

Dev_Sam ==
    [name |-> "Sam", skills |-> S_Java,
     contributions |-> S_Fixed_several_Auth_crashes, modules |-> <<S_Auth>>]

Dev_Ben == [name |-> "Ben"]

\* A second record under Tina's name.
Dev_Tina2 == [name |-> "Tina", skills |-> S_Go]

\* PDFParser._get_mock_bugs
_get_mock_bugs ==
    <<[title       |->
           <<"I","s","s","u","e"," ","i","n"," ","A","u","t","h">>,
       description |->
           <<"A","u","t","h","e","n","t","i","c","a","t","i","o","n"," ",
             "b","u","g"," ","c","a","u","s","i","n","g"," ","l","o","g",
             "i","n"," ","f","a","i","l","u","r","e","s">>,
       severity    |-> "High",
       component   |-> S_Auth,
       labels      |->
           <<"S","e","c","u","r","i","t","y">>,
       stack_trace |->
           <<"E","x","c","e","p","t","i","o","n"," ","i","n"," ","a","u",
             "t","h"," ","m","o","d","u","l","e">>],
      [title       |->
           <<"I","s","s","u","e"," ","i","n"," ","D","a","s","h","b","o",
             "a","r","d">>,
       description |->
           <<"D","a","s","h","b","o","a","r","d"," ","l","o","a","d","i",
             "n","g"," ","p","e","r","f","o","r","m","a","n","c","e"," ",
             "i","s","s","u","e">>,
       severity    |-> "Medium",
       component   |->
           <<"D","a","s","h","b","o","a","r","d">>,
       labels      |->
           <<"P","e","r","f","o","r","m","a","n","c","e">>,
       stack_trace |-> S_empty],
      [title       |->
           <<"I","s","s","u","e"," ","i","n"," ","P","a","y","m","e","n",
             "t","s">>,
       description |->
           <<"P","a","y","m","e","n","t"," ","p","r","o","c","e","s","s",
             "i","n","g"," ","t","i","m","e","o","u","t">>,
       severity    |-> "Critical",
       component   |-> S_Payments,
       labels      |->
           <<"B","a","c","k","e","n","d">>,
       stack_trace |->
           <<"T","i","m","e","o","u","t"," ","e","x","c","e","p","t","i",
             "o","n">>]>>

\* PDFParser._get_default_developers
_get_default_developers ==
    <<[name |-> "Alice Johnson", skills |->
           <<"P","y","t","h","o","n",","," ","D","j","a","n","g","o",",",
             " ","R","E","S","T"," ","A","P","I","s">>,
       modules |-> <<S_Reports>>, contributions |-> S_Reports_module],
      [name |-> "Bob Smith", skills |->
           <<"J","a","v","a",","," ","S","p","r","i","n","g"," ","B","o",
             "o","t">>,
       modules |-> <<S_Payments>>, contributions |->
           <<"P","a","y","m","e","n","t","s"," ","m","o","d","u","l","e">>],
      [name |-> "Charlie Brown", skills |->
           <<"J","a","v","a","S","c","r","i","p","t",","," ","R","e","a",
             "c","t">>,
       modules |-> <<<<"D","a","s","h","b","o","a","r","d">>>>, contributions |->
           <<"D","a","s","h","b","o","a","r","d"," ","m","o","d","u","l",
             "e">>],
      [name |-> "Frank Thomas", skills |->
           <<"C","y","b","e","r","s","e","c","u","r","i","t","y">>,
       modules |-> <<S_Auth>>, contributions |->
           <<"A","u","t","h"," ","m","o","d","u","l","e">>]>>

Bugs == {Bug_login, Bug_api, Bug_slow}

Team == <<Dev_Frank, Dev_Tina, Dev_Tom, Dev_Sam, Dev_Ben>>

DevLists == {<<>>, <<Dev_Frank>>, Team, <<Dev_Tina, Dev_Sam, Dev_Tina2>>}

\* Batches of complete bug records, as extract_bug_reports builds them
\* (src/pdf_parser.py lines 150-157 and 229-254).
Batches == {<<>>, <<Bug_slow, Bug_slow, Bug_api>>}

BatchDevLists == {<<>>, <<Dev_Tina, Dev_Tom>>, Team}

Names == {"Tina", "Sam"}

ResolutionTimes == {3}

AllBugs == Bugs \cup Range(_get_mock_bugs)

AllDevs ==
    {Dev_Frank, Dev_Tina, Dev_Tom, Dev_Sam, Dev_Ben, Dev_Tina2}
        \cup Range(_get_default_developers)

(***************************************************************************)
(* extract_features_from_bug and Expertise over the inputs, tabulated:     *)
(* both are functions of the record alone, and a table is evaluated once.  *)
(***************************************************************************)
FeatureTable == [b \in AllBugs |-> extract_features_from_bug(b)]

ExpertiseTable == [d \in AllDevs |-> Expertise(d)]

(***************************************************************************)
(* One profile of MLBugTriager.build_developer_profiles (lines 163-171).   *)
(* historical_performance.get(name, default) returns the engine's own dict *)
(* when the name has one: the profile then holds a reference to it (ref)   *)
(* and sees later updates of it; otherwise it holds a fresh default dict   *)
(* (val).                                                                  *)
(***************************************************************************)
Profile(dev, workload, performance) ==
    LET e == ExpertiseTable[dev]
    IN  [name              |-> e.name,
         skills            |-> e.skills,
         modules           |-> e.modules,
         expertise_domains |-> e.expertise_domains,
         experience_level  |-> e.experience_level,
         current_workload  |-> Get(workload, e.name, 0),
         historical_performance |->
             IF e.name \in DOMAIN performance
             THEN [ref |-> TRUE, name |-> e.name]
             ELSE [ref |-> FALSE, val |-> DefaultPerformance]]

\* profiles[name] = ... on an insertion-ordered dict kept as a sequence of
\* profiles: a new key is appended, an existing key keeps its place and
\* takes the new value.
\* A variant in which a key that is present keeps its value.
SetItemKeepFirst(profiles, p) ==
    IF \E i \in DOMAIN profiles : profiles[i].name = p.name
    THEN profiles
    ELSE Append(profiles, p)

SetItem(profiles, p) ==
    IF \E i \in DOMAIN profiles : profiles[i].name = p.name
    THEN [i \in DOMAIN profiles |->
             IF profiles[i].name = p.name THEN p ELSE profiles[i]]
    ELSE Append(profiles, p)

\* The profiles build_developer_profiles returns (lines 141-175).
RECURSIVE Profiles(_, _, _)
Profiles(developers, workload, performance) ==
    IF developers = <<>> THEN <<>>
    ELSE SetItem(Profiles(SubSeq(developers, 1, Len(developers) - 1),
                          workload, performance),
                 Profile(developers[Len(developers)], workload, performance))

\* self.developer_expertise after build_developer_profiles (line 173).
Cached(expertise, profiles) ==
    LET names == {profiles[i].name : i \in DOMAIN profiles}
    IN  [n \in DOMAIN expertise \cup names |->
            IF n \in names
            THEN profiles[CHOOSE i \in DOMAIN profiles : profiles[i].name = n]
            ELSE expertise[n]]

(***************************************************************************)
(* list(a_set).  The order in which CPython lists a set of strings is      *)
(* fixed for the life of the process (it follows the strings' hashes,      *)
(* which are seeded at start-up) and unknown to the program.  order maps   *)
(* the pair <<bug_keywords, dev_expertise>> to the order in which the      *)
(* process lists their intersection; a set of fewer than two elements has  *)
(* one order.                                                              *)
(***************************************************************************)
Orderings(S) ==
    {s \in [1..Cardinality(S) -> S] : \A i, j \in DOMAIN s : s[i] = s[j] => i = j}

ListOf(bug_keywords, dev_expertise, order) ==
    LET both == bug_keywords \cap dev_expertise
    IN  IF both = {} THEN <<>>
        ELSE IF Cardinality(both) = 1 THEN <<CHOOSE k \in both : TRUE>>
        ELSE order[<<bug_keywords, dev_expertise>>]

\* The pairs whose listing order a scoring call observes.
OrderKeys(features, developer_profiles) ==
    {<<f.tech_keywords, developer_profiles[i].expertise_domains>> :
        f \in features, i \in DOMAIN developer_profiles}

NeededKeys(features, developer_profiles) ==
    {k \in OrderKeys(features, developer_profiles) :
        Cardinality(k[1] \cap k[2]) >= 2}

\* Every way of fixing the order of the pairs in keys that order has not
\* fixed yet.
Reveal(order, keys) ==
    LET new   == keys \ DOMAIN order
        perms == UNION {Orderings(k[1] \cap k[2]) : k \in new}
    IN  {[k \in DOMAIN order \cup new |->
             IF k \in DOMAIN order THEN order[k] ELSE c[k]] :
         c \in {d \in [new -> perms] :
                   \A k \in new : Range(d[k]) = k[1] \cap k[2]}}

(***************************************************************************)
(* Scoring Engine: MLBugTriager.calculate_developer_scores.  Scores are in *)
(* units of 1/ScoreOne, confidences in units of 1/ConfOne.                 *)
(***************************************************************************)
\* profile['historical_performance'], through the reference if it is one.
PerformanceOf(profile, performance) ==
    IF profile.historical_performance.ref
    THEN performance[profile.historical_performance.name]
    ELSE profile.historical_performance.val

\* What the profiles hold when they are read: every reference followed.
Contents(developer_profiles, performance) ==
    [i \in DOMAIN developer_profiles |->
        [developer_profiles[i] EXCEPT
            !.historical_performance =
                PerformanceOf(developer_profiles[i], performance)]]

\* 1. Expertise matching (40% weight), lines 194-199
\* A variant that divides by the size of the developer's expertise.
ExpertiseScorePerDomain(bug_features, profile) ==
    LET bug_keywords      == bug_features.tech_keywords
        dev_expertise     == profile.expertise_domains
        expertise_overlap == Cardinality(bug_keywords \cap dev_expertise)
        expertise_score   ==
            Min(IF bug_keywords # {}
                THEN (expertise_overlap * ScoreOne) \div Cardinality(dev_expertise)
                ELSE 0,
                ScoreOne)
    IN  IF expertise_overlap > 0 THEN (expertise_score * 4) \div 10 ELSE 0

ExpertiseScore(bug_features, profile) ==
    LET bug_keywords      == bug_features.tech_keywords
        dev_expertise     == profile.expertise_domains
        expertise_overlap == Cardinality(bug_keywords \cap dev_expertise)
        expertise_score   ==
            Min(IF bug_keywords # {}
                THEN (expertise_overlap * ScoreOne) \div Cardinality(bug_keywords)
                ELSE 0,
                ScoreOne)
    IN  IF expertise_overlap > 0 THEN (expertise_score * 4) \div 10 ELSE 0

\* 2. Module/Component matching (30% weight), lines 205-206
ModuleMatch(bug_features, profile) ==
    \E i \in DOMAIN profile.modules :
        lower(profile.modules[i]) = lower(bug_features.component)

ModuleScore(bug_features, profile) ==
    IF ModuleMatch(bug_features, profile) THEN (ScoreOne * 3) \div 10 ELSE 0

\* 3. Workload balancing (15% weight), lines 210-213
\* A variant that divides with //: current_load // max_load.
WorkloadScoreFloorDiv(profile) ==
    ((max_load - (profile.current_workload \div max_load) * max_load)
         * ScoreOne * 15) \div (max_load * 100)

\* A variant that gives the whole 15% to every developer with available
\* capacity and nothing to the others.
WorkloadScoreOfCapacity(profile) ==
    IF profile.current_workload < 3 THEN (ScoreOne * 15) \div 100 ELSE 0

WorkloadScore(profile) ==
    ((max_load - profile.current_workload) * ScoreOne * 15) \div (max_load * 100)

\* 4. Experience vs Complexity matching (10% weight), lines 219-223
SeniorForCritical(bug_features, profile) ==
    /\ bug_features.severity \in {"Critical", "High"}
    /\ profile.experience_level = "senior"

ExperienceScore(bug_features, profile) ==
    IF SeniorForCritical(bug_features, profile) THEN ScoreOne \div 10
    ELSE IF bug_features.complexity_score < 50 /\ profile.experience_level = "mid"
         THEN (ScoreOne * 5) \div 100
         ELSE 0

\* 5. Historical performance (5% weight), lines 226-228
HighSuccess(profile, performance) ==
    LET rate == PerformanceOf(profile, performance).success_rate
    IN  rate[1] * 100 > 85 * rate[2]

PerformanceScore(profile, performance) ==
    IF HighSuccess(profile, performance) THEN (ScoreOne * 5) \div 100 ELSE 0

\* score = min(score, 1.0), line 232
Score(bug_features, profile, performance) ==
    Min(ExpertiseScore(bug_features, profile)
          + ModuleScore(bug_features, profile)
          + WorkloadScore(profile)
          + ExperienceScore(bug_features, profile)
          + PerformanceScore(profile, performance),
        ScoreOne)

\* confidence = 0.30 + (score * 0.65), line 235
Confidence(score) == (30 * ConfOne) \div 100 + score * 65

\* A variant whose capacity ends at two bugs.
ReasonsCapacityBelowTwo(bug_features, profile, performance, order) ==
    LET matched_skills ==
            Prefix(ListOf(bug_features.tech_keywords,
                          profile.expertise_domains, order), 3)
    IN  (IF matched_skills # <<>>
         THEN <<S_Expertise \o Join(S_comma, matched_skills)>> ELSE <<>>)
        \o (IF ModuleMatch(bug_features, profile)
            THEN <<S_Module_expert \o bug_features.component>> ELSE <<>>)
        \o (IF profile.current_workload < 2
            THEN <<S_Available_capacity>> ELSE <<>>)
        \o (IF SeniorForCritical(bug_features, profile)
            THEN <<S_Senior_dev>> ELSE <<>>)
        \o (IF HighSuccess(profile, performance)
            THEN <<S_High_success_rate>> ELSE <<>>)

\* reasons, lines 191-229, in the order of the appends
Reasons(bug_features, profile, performance, order) ==
    LET matched_skills ==
            Prefix(ListOf(bug_features.tech_keywords,
                          profile.expertise_domains, order), 3)
    IN  (IF matched_skills # <<>>
         THEN <<S_Expertise \o Join(S_comma, matched_skills)>> ELSE <<>>)
        \o (IF ModuleMatch(bug_features, profile)
            THEN <<S_Module_expert \o bug_features.component>> ELSE <<>>)
        \o (IF profile.current_workload < 3
            THEN <<S_Available_capacity>> ELSE <<>>)
        \o (IF SeniorForCritical(bug_features, profile)
            THEN <<S_Senior_dev>> ELSE <<>>)
        \o (IF HighSuccess(profile, performance)
            THEN <<S_High_success_rate>> ELSE <<>>)

\* reason_str, line 237
\* A variant that joins with a comma.
ReasonStrComma(reasons) ==
    IF reasons # <<>> THEN Join(S_comma, reasons) ELSE S_General_assignment

ReasonStr(reasons) ==
    IF reasons # <<>> THEN Join(S_semicolon, reasons) ELSE S_General_assignment

\* The tuple (dev_name, confidence, reason_str) appended at line 239, as a
\* record.
Candidate(bug_features, profile, performance, order) ==
    [developer  |-> profile.name,
     confidence |-> Confidence(Score(bug_features, profile, performance)),
     reason     |-> ReasonStr(Reasons(bug_features, profile, performance, order))]

\* scores.sort(key=lambda x: x[1], reverse=True), line 242: a stable sort,
\* as an insertion after the elements that are not smaller.
\* A variant that inserts before the elements that are equal.
SortInsertBeforeEqual(sorted, x) ==
    LET k == Cardinality({i \in DOMAIN sorted :
                             sorted[i].confidence > x.confidence})
    IN  SubSeq(sorted, 1, k) \o <<x>> \o SubSeq(sorted, k + 1, Len(sorted))

SortInsert(sorted, x) ==
    LET k == Cardinality({i \in DOMAIN sorted :
                             sorted[i].confidence >= x.confidence})
    IN  SubSeq(sorted, 1, k) \o <<x>> \o SubSeq(sorted, k + 1, Len(sorted))

RECURSIVE SortByConfidence(_)
SortByConfidence(scores) ==
    IF scores = <<>> THEN <<>>
    ELSE SortInsert(SortByConfidence(SubSeq(scores, 1, Len(scores) - 1)),
                    scores[Len(scores)])

calculate_developer_scores(bug_features, developer_profiles, performance, order) ==
    SortByConfidence(
        [i \in DOMAIN developer_profiles |->
            Candidate(bug_features, developer_profiles[i], performance, order)])

(***************************************************************************)
(* Assignment Coordinator: the body of MLBugTriager.assign_bug_to_developer*)
(* as a function of the engine state it reads.                             *)
(***************************************************************************)
\* {'developer': d, 'confidence': round(c, 2), 'reason': r}, lines 281-284
Rounded(candidate, up) ==
    [developer  |-> candidate.developer,
     confidence |-> Round2(candidate.confidence, up),
     reason     |-> candidate.reason]

\* The dict assign_bug_to_developer returns, lines 259-285.  Confidences of
\* the result are in hundredths.
\* A variant whose alternatives are developer_scores[0:4].
ResultFromWinner(developer_scores, up) ==
    IF developer_scores = <<>>
    THEN [developer  |-> "Unassigned",
          confidence |-> 30,
          reason     |-> S_No_suitable_developer]
    ELSE [developer    |-> developer_scores[1].developer,
          confidence   |-> Round2(developer_scores[1].confidence, up[1]),
          reason       |-> developer_scores[1].reason,
          alternatives |-> [i \in 1..Min(4, Len(developer_scores)) |->
                               Rounded(developer_scores[i], up[i])]]

Result(developer_scores, up) ==
    IF developer_scores = <<>>
    THEN [developer  |-> "Unassigned",
          confidence |-> 30,
          reason     |-> S_No_suitable_developer]
    ELSE [developer    |-> developer_scores[1].developer,
          confidence   |-> Round2(developer_scores[1].confidence, up[1]),
          reason       |-> developer_scores[1].reason,
          alternatives |-> [i \in 1..Min(3, Len(developer_scores) - 1) |->
                               Rounded(developer_scores[i + 1], up[i + 1])]]

\* The sides on which the doubles one call rounds can lie, one for each of
\* the candidates it returns: either side for a confidence that is halfway,
\* the same side for the same confidence, and no matter otherwise.
TieSides(developer_scores) ==
    {up \in [1..Min(4, Len(developer_scores)) -> BOOLEAN] :
        \A i, j \in DOMAIN up :
            /\ up[i] => IsTie(developer_scores[i].confidence)
            /\ developer_scores[i].confidence = developer_scores[j].confidence
                   => up[i] = up[j]}

\* self.developer_workload[best_developer] =
\*     self.developer_workload.get(best_developer, 0) + 1, line 270
\* A variant that counts the bug for every developer with an entry.
IncrementEvery(workload, best_developer) ==
    [n \in DOMAIN workload \cup {best_developer} |->
        Get(workload, n, 0) + 1]

\* A variant that forgets the count so far.
IncrementFromZero(workload, best_developer) ==
    [n \in DOMAIN workload \cup {best_developer} |->
        IF n = best_developer THEN 0 + 1 ELSE workload[n]]

Increment(workload, best_developer) ==
    [n \in DOMAIN workload \cup {best_developer} |->
        IF n = best_developer THEN Get(workload, best_developer, 0) + 1
        ELSE workload[n]]

\* A variant that counts the fallback under the name it returns.
AssignStepCountingFallback(bug_data, developers, workload, performance, order) ==
    LET bug_features       == FeatureTable[bug_data]
        developer_profiles == Profiles(developers, workload, performance)
        developer_scores   ==
            calculate_developer_scores(bug_features, developer_profiles,
                                       performance, order)
    IN  [bug_features       |-> bug_features,
         developer_profiles |-> developer_profiles,
         developer_scores   |-> developer_scores,
         workload           |-> Increment(workload,
                                          IF developer_scores = <<>>
                                          THEN "Unassigned"
                                          ELSE developer_scores[1].developer)]

\* One call, from the workload map it finds: what it computed and the
\* workload map it leaves.
AssignStep(bug_data, developers, workload, performance, order) ==
    LET bug_features       == FeatureTable[bug_data]
        developer_profiles == Profiles(developers, workload, performance)
        developer_scores   ==
            calculate_developer_scores(bug_features, developer_profiles,
                                       performance, order)
    IN  [bug_features       |-> bug_features,
         developer_profiles |-> developer_profiles,
         developer_scores   |-> developer_scores,
         workload           |-> IF developer_scores = <<>> THEN workload
                                ELSE Increment(workload,
                                               developer_scores[1].developer)]

\* A variant in which a batch counts from the map of a fresh engine, as a
\* request would that worked on its own copy of the counters.
RECURSIVE BatchStepsOnOwnCopy(_, _, _, _, _)
BatchStepsOnOwnCopy(bugs, developers, workload, performance, order) ==
    IF bugs = <<>> THEN <<>>
    ELSE LET before == BatchStepsOnOwnCopy(SubSeq(bugs, 1, Len(bugs) - 1),
                                           developers, workload, performance,
                                           order)
             found  == IF before = <<>> THEN <<>>
                       ELSE before[Len(before)].workload
         IN  Append(before,
                    AssignStep(bugs[Len(bugs)], developers, found,
                               performance, order))

\* The calls of PDFParser._assign_bugs_with_ml's loop (lines 269-270), each
\* from the workload map the one before left.
\* A variant that scores every bug from the workload map the batch found.
BatchStepsIndependent(bugs, developers, workload, performance, order) ==
    [k \in DOMAIN bugs |->
        AssignStep(bugs[k], developers, workload, performance, order)]

RECURSIVE BatchSteps(_, _, _, _, _)
BatchSteps(bugs, developers, workload, performance, order) ==
    IF bugs = <<>> THEN <<>>
    ELSE LET before == BatchSteps(SubSeq(bugs, 1, Len(bugs) - 1), developers,
                                  workload, performance, order)
             found  == IF before = <<>> THEN workload
                       ELSE before[Len(before)].workload
         IN  Append(before,
                    AssignStep(bugs[Len(bugs)], developers, found,
                               performance, order))

\* assigned_bug, lines 272-282
AssignedBug(bug, assignment) ==
    [title               |-> bug.title,
     description         |-> bug.description,
     severity            |-> bug.severity,
     component           |-> bug.component,
     labels              |-> bug.labels,
     stack_trace         |-> bug.stack_trace,
     predicted_developer |-> assignment.developer,
     confidence          |-> assignment.confidence,
     reason              |-> assignment.reason]

(***************************************************************************)
(* State.                                                                  *)
(***************************************************************************)
VARIABLES
    developer_workload,      \* self.developer_workload: name -> count
    developer_expertise,     \* self.developer_expertise: name -> profile
    historical_performance,  \* self.historical_performance: name -> metrics
    hashOrder,               \* the listing orders the process has shown
    held,                    \* the profiles build_developer_profiles last
                             \* returned to its caller
    log,                     \* the developers logged at line 273, in order
    call,                    \* the last operation and its arguments
    ret,                     \* what it returned
    trace,                   \* what each scoring of that operation computed
    scored,                  \* the last call of calculate_developer_scores
                             \* on its own since an assignment, if any
    calls,                   \* operations completed
    bug_reports,             \* the bug_reports table: id -> row
    assignments,             \* the assignments table: id -> row
    request,                 \* the last HTTP request and its input
    journal,                 \* what the handler of that request did, in order
    response,                \* the response to it
    inflight                 \* the upload_pdf requests begun on the event loop:
                             \* request -> its file and its position

vars == <<developer_workload, developer_expertise, historical_performance,
          hashOrder, held, log, call, ret, trace, scored, calls,
          bug_reports, assignments, request, journal, response, inflight>>

\* The state of the HTTP service of src/main.py.
service == <<bug_reports, assignments, request, journal, response>>

engine == <<developer_workload, developer_expertise, historical_performance>>

EmptyMap == <<>>

\* MLBugTriager.__init__, lines 48-50; PDFParser.__init__ owns the engine,
\* and src/main.py makes one PDFParser (line 44) over the tables init_db
\* creates.
Init ==
    /\ developer_workload = EmptyMap
    /\ developer_expertise = EmptyMap
    /\ historical_performance = EmptyMap
    /\ hashOrder = EmptyMap
    /\ held = <<>>
    /\ log = <<>>
    /\ call = [op |-> "init"]
    /\ ret = [none |-> TRUE]
    /\ trace = <<>>
    /\ scored = <<>>
    /\ calls = 0
    /\ bug_reports = EmptyMap
    /\ assignments = EmptyMap
    /\ request = [op |-> "startup"]
    /\ journal = <<>>
    /\ response = [none |-> TRUE]
    /\ inflight = EmptyMap

(***************************************************************************)
(* Operations.  What an operation computes is bound by \E x \in {e}, which *)
(* evaluates e once.                                                       *)
(***************************************************************************)
\* MLBugTriager.assign_bug_to_developer
\* A variant that takes a developer's profile from self.developer_expertise
\* when the name is cached.
assign_bug_to_developer_cached(bug_data, developers) ==
    \E developer_profiles \in
           {LET fresh == Profiles(developers, developer_workload,
                                  historical_performance)
            IN  [i \in DOMAIN fresh |->
                    IF fresh[i].name \in DOMAIN developer_expertise
                    THEN developer_expertise[fresh[i].name]
                    ELSE fresh[i]]} :
        \E order \in Reveal(hashOrder,
                            NeededKeys({FeatureTable[bug_data]},
                                       developer_profiles)) :
            \E developer_scores \in
                   {calculate_developer_scores(FeatureTable[bug_data],
                                               developer_profiles,
                                               historical_performance,
                                               order)} :
                /\ hashOrder' = order
                /\ developer_expertise' =
                       Cached(developer_expertise, developer_profiles)
                /\ developer_workload' =
                       IF developer_scores = <<>> THEN developer_workload
                       ELSE Increment(developer_workload,
                                      developer_scores[1].developer)
                /\ log' = IF developer_scores = <<>> THEN log
                          ELSE Append(log, developer_scores[1].developer)
                /\ call' = [op |-> "assign", bug_data |-> bug_data,
                            developers |-> developers]
                /\ \E up \in TieSides(developer_scores) :
                       ret' = Result(developer_scores, up)
                /\ trace' = <<[bug_features       |-> FeatureTable[bug_data],
                               developer_profiles |-> developer_profiles,
                               developer_scores   |-> developer_scores,
                               workload           |-> developer_workload']>>
                /\ scored' = <<>>
                /\ calls' = calls + 1
                /\ UNCHANGED <<historical_performance, held>>

assign_bug_to_developer(bug_data, developers) ==
    \E order \in Reveal(hashOrder,
                        NeededKeys({FeatureTable[bug_data]},
                                   Profiles(developers, developer_workload,
                                            historical_performance))) :
        \E step \in {AssignStep(bug_data, developers, developer_workload,
                                historical_performance, order)} :
            /\ hashOrder' = order
            /\ developer_expertise' =
                   Cached(developer_expertise, step.developer_profiles)
            /\ developer_workload' = step.workload
            /\ log' = IF step.developer_scores = <<>> THEN log
                      ELSE Append(log, step.developer_scores[1].developer)
            /\ call' = [op |-> "assign", bug_data |-> bug_data,
                        developers |-> developers]
            /\ \E up \in TieSides(step.developer_scores) :
                   ret' = Result(step.developer_scores, up)
            /\ trace' = <<step>>
            /\ scored' = <<>>
            /\ calls' = calls + 1
            /\ UNCHANGED <<historical_performance, held>>

\* MLBugTriager.build_developer_profiles, called on its own
build_developer_profiles(developers) ==
    \E profiles \in {Profiles(developers, developer_workload,
                              historical_performance)} :
        /\ developer_expertise' = Cached(developer_expertise, profiles)
        /\ held' = profiles
        /\ call' = [op |-> "build", developers |-> developers]
        /\ ret' = profiles
        /\ trace' = <<>>
        /\ calls' = calls + 1
        /\ UNCHANGED <<developer_workload, historical_performance, hashOrder,
                       log, scored>>

\* A variant that counts the best candidate as assigned.
ScoreCallCounting(bug_features, developer_profiles) ==
    \E order \in Reveal(hashOrder,
                        NeededKeys({bug_features}, developer_profiles)) :
        \E developer_scores \in
               {calculate_developer_scores(bug_features, developer_profiles,
                                           historical_performance, order)} :
            /\ hashOrder' = order
            /\ developer_workload' =
                   IF developer_scores = <<>> THEN developer_workload
                   ELSE Increment(developer_workload,
                                  developer_scores[1].developer)
            /\ call' = [op |-> "score", bug_features |-> bug_features,
                        developer_profiles |-> developer_profiles]
            /\ ret' = developer_scores
            /\ trace' = <<[bug_features       |-> bug_features,
                           developer_profiles |-> developer_profiles,
                           developer_scores   |-> developer_scores]>>
            /\ scored' =
                   LET contents == Contents(developer_profiles,
                                            historical_performance)
                   IN  <<[bug_features       |-> bug_features,
                          developer_profiles |-> contents,
                          developer_scores   |-> developer_scores,
                          again |-> /\ scored # <<>>
                                    /\ scored[1].bug_features = bug_features
                                    /\ scored[1].developer_profiles = contents]>>
            /\ calls' = calls + 1
            /\ UNCHANGED <<developer_expertise, historical_performance,
                           held, log>>

\* MLBugTriager.calculate_developer_scores, called on its own with the
\* features of a bug and a profile mapping
ScoreCall(bug_features, developer_profiles) ==
    \E order \in Reveal(hashOrder,
                        NeededKeys({bug_features}, developer_profiles)) :
        \E developer_scores \in
               {calculate_developer_scores(bug_features, developer_profiles,
                                           historical_performance, order)} :
            /\ hashOrder' = order
            /\ call' = [op |-> "score", bug_features |-> bug_features,
                        developer_profiles |-> developer_profiles]
            /\ ret' = developer_scores
            /\ trace' = <<[bug_features       |-> bug_features,
                           developer_profiles |-> developer_profiles,
                           developer_scores   |-> developer_scores]>>
            /\ scored' =
                   LET contents == Contents(developer_profiles,
                                            historical_performance)
                   IN  <<[bug_features       |-> bug_features,
                          developer_profiles |-> contents,
                          developer_scores   |-> developer_scores,
                          again |-> /\ scored # <<>>
                                    /\ scored[1].bug_features = bug_features
                                    /\ scored[1].developer_profiles = contents]>>
            /\ calls' = calls + 1
            /\ UNCHANGED <<engine, held, log>>

\* MLBugTriager._extract_technical_keywords, called on its own
ExtractKeywords(text) ==
    /\ call' = [op |-> "keywords", text |-> text]
    /\ ret' = _extract_technical_keywords(text)
    /\ trace' = <<>>
    /\ calls' = calls + 1
    /\ UNCHANGED <<engine, hashOrder, held, log, scored>>

\* MLBugTriager._calculate_bug_complexity, called on its own
EstimateComplexity(bug_data) ==
    /\ call' = [op |-> "complexity", bug_data |-> bug_data]
    /\ ret' = _calculate_bug_complexity(bug_data)
    /\ trace' = <<>>
    /\ calls' = calls + 1
    /\ UNCHANGED <<engine, hashOrder, held, log, scored>>

\* A variant that also takes one bug off the developer's workload.
update_historical_performance_releasing(developer, resolution_time, success) ==
    LET perf == Get(historical_performance, developer,
                    [total_assignments      |-> 0,
                     successful_assignments |-> 0,
                     total_resolution_time  |-> 0,
                     avg_resolution_time    |-> Ratio(0, 1),
                     success_rate           |-> Ratio(4, 5)])
        total      == perf.total_assignments + 1
        time       == perf.total_resolution_time + resolution_time
        successful == perf.successful_assignments + (IF success THEN 1 ELSE 0)
        updated    == [total_assignments      |-> total,
                       successful_assignments |-> successful,
                       total_resolution_time  |-> time,
                       avg_resolution_time    |-> Ratio(time, total),
                       success_rate           |-> Ratio(successful, total)]
    IN  /\ historical_performance' =
               [n \in DOMAIN historical_performance \cup {developer} |->
                   IF n = developer THEN updated ELSE historical_performance[n]]
        /\ developer_workload' =
               [n \in DOMAIN developer_workload |->
                   IF n = developer /\ developer_workload[n] > 0
                   THEN developer_workload[n] - 1
                   ELSE developer_workload[n]]
        /\ call' = [op |-> "update", developer |-> developer,
                    resolution_time |-> resolution_time, success |-> success]
        /\ ret' = [none |-> TRUE]
        /\ trace' = <<>>
        /\ calls' = calls + 1
        /\ UNCHANGED <<developer_expertise, hashOrder, held, log, scored>>

\* A variant that keeps the default rate 0.8 as one earlier assignment.
update_historical_performance_prior(developer, resolution_time, success) ==
    LET perf == Get(historical_performance, developer,
                    [total_assignments      |-> 0,
                     successful_assignments |-> 0,
                     total_resolution_time  |-> 0,
                     avg_resolution_time    |-> Ratio(0, 1),
                     success_rate           |-> Ratio(4, 5)])
        total      == perf.total_assignments + 1
        time       == perf.total_resolution_time + resolution_time
        successful == perf.successful_assignments + (IF success THEN 1 ELSE 0)
        updated    == [total_assignments      |-> total,
                       successful_assignments |-> successful,
                       total_resolution_time  |-> time,
                       avg_resolution_time    |-> Ratio(time, total),
                       success_rate           |-> Ratio(successful * 5 + 4,
                                                        total * 5 + 5)]
    IN  /\ historical_performance' =
               [n \in DOMAIN historical_performance \cup {developer} |->
                   IF n = developer THEN updated ELSE historical_performance[n]]
        /\ call' = [op |-> "update", developer |-> developer,
                    resolution_time |-> resolution_time, success |-> success]
        /\ ret' = [none |-> TRUE]
        /\ trace' = <<>>
        /\ calls' = calls + 1
        /\ UNCHANGED <<developer_workload, developer_expertise, hashOrder,
                       held, log, scored>>

\* MLBugTriager.update_historical_performance
update_historical_performance(developer, resolution_time, success) ==
    LET perf == Get(historical_performance, developer,
                    [total_assignments      |-> 0,
                     successful_assignments |-> 0,
                     total_resolution_time  |-> 0,
                     avg_resolution_time    |-> Ratio(0, 1),
                     success_rate           |-> Ratio(4, 5)])
        total      == perf.total_assignments + 1
        time       == perf.total_resolution_time + resolution_time
        successful == perf.successful_assignments + (IF success THEN 1 ELSE 0)
        updated    == [total_assignments      |-> total,
                       successful_assignments |-> successful,
                       total_resolution_time  |-> time,
                       avg_resolution_time    |-> Ratio(time, total),
                       success_rate           |-> Ratio(successful, total)]
    IN  /\ historical_performance' =
               [n \in DOMAIN historical_performance \cup {developer} |->
                   IF n = developer THEN updated ELSE historical_performance[n]]
        /\ call' = [op |-> "update", developer |-> developer,
                    resolution_time |-> resolution_time, success |-> success]
        /\ ret' = [none |-> TRUE]
        /\ trace' = <<>>
        /\ calls' = calls + 1
        /\ UNCHANGED <<developer_workload, developer_expertise, hashOrder,
                       held, log, scored>>

\* PDFParser._assign_bugs_with_ml
_assign_bugs_with_ml(bugs, developers) ==
    \E order \in Reveal(hashOrder,
                        NeededKeys({FeatureTable[bugs[i]] :
                                       i \in DOMAIN bugs},
                                   Profiles(developers, developer_workload,
                                            historical_performance))) :
        \E steps \in {BatchSteps(bugs, developers, developer_workload,
                                 historical_performance, order)} :
        LET last == steps[Len(steps)]
            won  == SelectSeq(steps, LAMBDA s : s.developer_scores # <<>>)
        IN  /\ hashOrder' = order
            /\ developer_expertise' =
                   IF steps = <<>> THEN developer_expertise
                   ELSE Cached(developer_expertise, last.developer_profiles)
            /\ developer_workload' =
                   IF steps = <<>> THEN developer_workload ELSE last.workload
            /\ log' = log \o [i \in DOMAIN won |->
                                 won[i].developer_scores[1].developer]
            /\ call' = [op |-> "batch", bugs |-> bugs,
                        developers |-> developers]
            /\ \E ups \in {u \in [DOMAIN steps ->
                                    UNION {TieSides(steps[i].developer_scores) :
                                              i \in DOMAIN steps}] :
                              \A i \in DOMAIN steps :
                                  u[i] \in TieSides(steps[i].developer_scores)} :
                   ret' = [i \in DOMAIN bugs |->
                              AssignedBug(bugs[i],
                                          Result(steps[i].developer_scores,
                                                 ups[i]))]
            /\ trace' = steps
            /\ scored' = <<>>
            /\ calls' = calls + 1
            /\ UNCHANGED <<historical_performance, held>>

(***************************************************************************)
(* The engine under its callers.                                           *)
(***************************************************************************)
MaxCalls == 2

Assign ==
    /\ calls < MaxCalls
    /\ \E b \in Bugs, d \in DevLists : assign_bug_to_developer(b, d)
    /\ UNCHANGED <<service, inflight>>

Build ==
    /\ calls < MaxCalls
    /\ \E d \in DevLists : build_developer_profiles(d)
    /\ UNCHANGED <<service, inflight>>

ScoreHeld ==
    /\ calls < MaxCalls
    /\ \E b \in Bugs : ScoreCall(FeatureTable[b], held)
    /\ UNCHANGED <<service, inflight>>

Update ==
    /\ calls < MaxCalls
    /\ \E n \in Names, t \in ResolutionTimes, s \in BOOLEAN :
           update_historical_performance(n, t, s)
    /\ UNCHANGED <<service, inflight>>

Batch ==
    /\ calls < MaxCalls
    /\ \E b \in Batches, d \in BatchDevLists : _assign_bugs_with_ml(b, d)
    /\ UNCHANGED <<service, inflight>>

Next == Assign \/ Build \/ ScoreHeld \/ Update \/ Batch

Spec == Init /\ [][Next]_vars

(***************************************************************************)
(* One engine under repeated assignment: the workloads it can build up.    *)
(***************************************************************************)
MaxLoadCalls == 12

LoadBugs == {Bug_login, Bug_slow}

LoadDevLists == {<<>>, <<Dev_Ben>>}

AssignLoad ==
    /\ calls < MaxLoadCalls
    /\ \E b \in LoadBugs, d \in LoadDevLists : assign_bug_to_developer(b, d)
    /\ UNCHANGED <<service, inflight>>

NextLoad == AssignLoad

SpecLoad == Init /\ [][NextLoad]_vars

(***************************************************************************)
(* calculate_developer_scores on its own, applied once to the profiles     *)
(* the engine builds under each workload map.                              *)
(***************************************************************************)
MaxLoad == 12

ScoreDevLists == {<<Dev_Tina, Dev_Tom>>, <<Dev_Tom, Dev_Sam, Dev_Tina>>}

Workloads == [{"Tina", "Tom"} -> 0..MaxLoad]

ScoreBuilt ==
    /\ calls = 0
    /\ \E b \in Bugs, d \in ScoreDevLists, w \in Workloads :
           ScoreCall(FeatureTable[b], Profiles(d, w, historical_performance))
    /\ UNCHANGED <<service, inflight>>

NextScore == ScoreBuilt

SpecScore == Init /\ [][NextScore]_vars

(***************************************************************************)
(* A caller that builds profiles, scores bugs against the profiles it      *)
(* holds and records outcomes, without assigning.                          *)
(***************************************************************************)
MaxProfileCalls == 3

ProfileDevLists == {<<Dev_Tina, Dev_Tom>>, <<Dev_Sam, Dev_Tina>>}

BuildHeld ==
    /\ calls < MaxProfileCalls
    /\ \E d \in ProfileDevLists : build_developer_profiles(d)
    /\ UNCHANGED <<service, inflight>>

ScoreAgain ==
    /\ calls < MaxProfileCalls
    /\ \E b \in Bugs : ScoreCall(FeatureTable[b], held)
    /\ UNCHANGED <<service, inflight>>

Record ==
    /\ calls < MaxProfileCalls
    /\ \E n \in Names, t \in ResolutionTimes, s \in BOOLEAN :
           update_historical_performance(n, t, s)
    /\ UNCHANGED <<service, inflight>>

NextProfiles == BuildHeld \/ ScoreAgain \/ Record

SpecProfiles == Init /\ [][NextProfiles]_vars

(***************************************************************************)
(* _calculate_bug_complexity on its own, applied once to each bug record   *)
(* of a product of titles, descriptions, severities and stack traces; an   *)
(* empty tuple of values stands for a key the record does not have.        *)
(***************************************************************************)
Pad(n) == [i \in 1..n |-> "x"]

S_python_rest_api_crash ==
    <<"p","y","t","h","o","n"," ","r","e","s","t"," ","a","p","i"," ",
      "c","r","a","s","h"," ">>

Titles == {<<>>, <<S_empty>>, <<S_Java>>}

Descriptions ==
    {<<>>, <<S_empty>>, <<Pad(200)>>, <<Pad(201)>>, <<Pad(500)>>, <<Pad(501)>>,
     <<S_Python_REST_APIs>>, <<S_python_rest_api_crash>>,
     <<S_python_rest_api_crash \o Pad(480)>>}

Severities ==
    {<<>>, <<"Critical">>, <<"High">>, <<"Medium">>, <<"Low">>, <<"Blocker">>}

StackTraces == {<<>>, <<S_empty>>, <<S_Traceback>>}

BugOf(title, description, severity, stack_trace) ==
    LET given == [title       |-> title,
                  description |-> description,
                  severity    |-> severity,
                  stack_trace |-> stack_trace]
    IN  [key \in {k \in DOMAIN given : given[k] # <<>>} |-> given[key][1]]

ComplexityBugs ==
    {BugOf(t, d, s, k) :
        t \in Titles, d \in Descriptions, s \in Severities, k \in StackTraces}

Estimate ==
    /\ calls = 0
    /\ \E b \in ComplexityBugs : EstimateComplexity(b)
    /\ UNCHANGED <<service, inflight>>

NextComplexity == Estimate

SpecComplexity == Init /\ [][NextComplexity]_vars

(***************************************************************************)
(* _extract_technical_keywords on its own, applied once to each text of up *)
(* to MaxTextLen characters over an alphabet that spells, in either case,  *)
(* the keywords go, c++ and c#.                                            *)
(***************************************************************************)
MaxTextLen == 3

TextChars == {"g", "G", "o", "O", "c", "C", "+", "#"}

Texts == UNION {[1..n -> TextChars] : n \in 0..MaxTextLen}

Extract ==
    /\ calls = 0
    /\ \E text \in Texts : ExtractKeywords(text)
    /\ UNCHANGED <<service, inflight>>

NextKeywords == Extract

SpecKeywords == Init /\ [][NextKeywords]_vars

(***************************************************************************)
(* The HTTP service of src/main.py over the bug_reports and assignments    *)
(* tables.  A handler runs as one step; journal keeps what it did in       *)
(* program order: rows written, commits, ticket attempts with what the     *)
(* integration did, exceptions caught or raised, and the return.  What an  *)
(* integration does is an input: it creates the ticket, returns {} (not    *)
(* configured, a status other than 201, a failed request) or raises.       *)
(***************************************************************************)
\* An optional column or field: None, or <<value>>.
None == <<>>

\* if value:
Truthy(value) == value # None /\ value[1] # ""

\* The id a new row gets: the key is SQLite's INTEGER PRIMARY KEY
\* (src/database.py lines 113 and 182), one more than the largest in the
\* table.
NextId(table) ==
    IF DOMAIN table = {} THEN 1
    ELSE (CHOOSE i \in DOMAIN table : \A j \in DOMAIN table : j <= i) + 1

Event(event, k, bug_id, action, outcome) ==
    [event |-> event, call |-> k, bug_id |-> bug_id, action |-> action,
     outcome |-> outcome]

\* BugReport(...), src/main.py lines 88-99: confidence in hundredths.
\* A variant that reads the reason under the column's name.
BugReportByColumnName(bug_data) ==
    [title               |-> Get(bug_data, "title", S_empty),
     description         |-> Get(bug_data, "description", S_empty),
     severity            |-> Get(bug_data, "severity", "Medium"),
     component           |-> Get(bug_data, "component", S_General),
     labels              |-> Get(bug_data, "labels", S_empty),
     stack_trace         |-> Get(bug_data, "stack_trace", S_empty),
     predicted_developer |-> Get(bug_data, "predicted_developer", "Unassigned"),
     confidence_score    |-> Get(bug_data, "confidence", 50),
     assignment_reason   |-> Get(bug_data, "assignment_reason",
                                 S_AI_based_assignment),
     assigned_developer  |-> None,
     status              |-> "pending"]

BugReport(bug_data) ==
    [title               |-> Get(bug_data, "title", S_empty),
     description         |-> Get(bug_data, "description", S_empty),
     severity            |-> Get(bug_data, "severity", "Medium"),
     component           |-> Get(bug_data, "component", S_General),
     labels              |-> Get(bug_data, "labels", S_empty),
     stack_trace         |-> Get(bug_data, "stack_trace", S_empty),
     predicted_developer |-> Get(bug_data, "predicted_developer", "Unassigned"),
     confidence_score    |-> Get(bug_data, "confidence", 50),
     assignment_reason   |-> Get(bug_data, "reason", S_AI_based_assignment),
     assigned_developer  |-> None,
     status              |-> "pending"]

\* The loop of upload_pdf, lines 86-105: one row and one commit for each bug.
RECURSIVE StoreAll(_, _)
StoreAll(reports, bug_reports_data) ==
    IF bug_reports_data = <<>> THEN reports
    ELSE LET before == StoreAll(reports,
                                SubSeq(bug_reports_data, 1,
                                       Len(bug_reports_data) - 1))
             id     == NextId(before)
         IN  [i \in DOMAIN before \cup {id} |->
                 IF i = id
                 THEN BugReport(bug_reports_data[Len(bug_reports_data)])
                 ELSE before[i]]

\* A variant that passes the extracted developers on as they are.
upload_pdf_without_defaults(file) ==
    /\ request' = [op |-> "upload_pdf", file |-> file]
    /\ IF ~file.pdf
       THEN /\ response' = [status |-> 400, detail |-> "File must be a PDF"]
            /\ journal' = <<Event("raise", 0, 0, "", "400")>>
            /\ calls' = calls + 1
            /\ UNCHANGED <<engine, hashOrder, held, log, call, ret, trace,
                           scored, bug_reports, assignments>>
       ELSE IF ~file.text
       THEN /\ response' = [status |-> 200, body |-> <<>>]
            /\ journal' = <<Event("return", 0, 0, "", "200")>>
            /\ calls' = calls + 1
            /\ UNCHANGED <<engine, hashOrder, held, log, call, ret, trace,
                           scored, bug_reports, assignments>>
       ELSE /\ _assign_bugs_with_ml(
                   IF file.bugs = <<>> THEN _get_mock_bugs ELSE file.bugs,
                   file.developers)
            /\ bug_reports' = StoreAll(bug_reports, ret')
            /\ \E first \in {NextId(bug_reports)} :
                   /\ journal' =
                          [i \in 1..(2 * Len(ret')) |->
                              Event(IF i % 2 = 1 THEN "add" ELSE "commit",
                                    0, first + (i - 1) \div 2, "", "")]
                          \o <<Event("return", 0, 0, "", "200")>>
                   /\ response' =
                          [status |-> 200,
                           body   |-> [i \in DOMAIN ret' |->
                                          [id  |-> first + i - 1,
                                           row |-> bug_reports'[first + i - 1]]]]
            /\ UNCHANGED assignments

\* upload_pdf, lines 59-112.  file is what the handler and the parser see of
\* the upload: whether its name ends in .pdf, whether any text comes out of
\* it, and the bugs and developers _extract_bugs_simple and
\* _extract_developers_simple find in the text.
upload_pdf(file) ==
    /\ request' = [op |-> "upload_pdf", file |-> file]
    /\ IF ~file.pdf
       THEN /\ response' = [status |-> 400, detail |-> "File must be a PDF"]
            /\ journal' = <<Event("raise", 0, 0, "", "400")>>
            /\ calls' = calls + 1
            /\ UNCHANGED <<engine, hashOrder, held, log, call, ret, trace,
                           scored, bug_reports, assignments>>
       ELSE IF ~file.text
       THEN /\ response' = [status |-> 200, body |-> <<>>]
            /\ journal' = <<Event("return", 0, 0, "", "200")>>
            /\ calls' = calls + 1
            /\ UNCHANGED <<engine, hashOrder, held, log, call, ret, trace,
                           scored, bug_reports, assignments>>
       ELSE /\ _assign_bugs_with_ml(
                   IF file.bugs = <<>> THEN _get_mock_bugs ELSE file.bugs,
                   IF file.developers = <<>> THEN _get_default_developers
                   ELSE file.developers)
            /\ bug_reports' = StoreAll(bug_reports, ret')
            /\ \E first \in {NextId(bug_reports)} :
                   /\ journal' =
                          [i \in 1..(2 * Len(ret')) |->
                              Event(IF i % 2 = 1 THEN "add" ELSE "commit",
                                    0, first + (i - 1) \div 2, "", "")]
                          \o <<Event("return", 0, 0, "", "200")>>
                   /\ response' =
                          [status |-> 200,
                           body   |-> [i \in DOMAIN ret' |->
                                          [id  |-> first + i - 1,
                                           row |-> bug_reports'[first + i - 1]]]]
            /\ UNCHANGED assignments

\* The tickets of assign_bug, lines 180-193, for the k-th call of a request:
\* none unless the action is approved; GitHub's if GITHUB_TOKEN is set, then
\* JIRA's if JIRA_TOKEN is set, and an exception ends the block.
\* A variant that creates tickets whatever the action.
TicketsForAnyAction(k, bug_id, action, tokens, outcomes) ==
    LET raised == tokens.github /\ outcomes.github = "raises"
        github == IF tokens.github
                  THEN <<Event("github", k, bug_id, action, outcomes.github)>>
                  ELSE <<>>
        jira   == IF ~raised /\ tokens.jira
                  THEN <<Event("jira", k, bug_id, action, outcomes.jira)>>
                  ELSE <<>>
        caught == IF raised \/ (jira # <<>> /\ outcomes.jira = "raises")
                  THEN <<Event("except", k, bug_id, action, "")>>
                  ELSE <<>>
    IN  github \o jira \o caught

Tickets(k, bug_id, action, tokens, outcomes) ==
    IF action # "approved" THEN <<>>
    ELSE LET raised == tokens.github /\ outcomes.github = "raises"
             github == IF tokens.github
                       THEN <<Event("github", k, bug_id, action,
                                    outcomes.github)>>
                       ELSE <<>>
             jira   == IF ~raised /\ tokens.jira
                       THEN <<Event("jira", k, bug_id, action, outcomes.jira)>>
                       ELSE <<>>
             caught == IF raised \/ (jira # <<>> /\ outcomes.jira = "raises")
                       THEN <<Event("except", k, bug_id, action, "")>>
                       ELSE <<>>
         IN  github \o jira \o caught

\* Lines 179-195: the tickets, then the response.
\* A variant without the try block: an exception of an integration leaves
\* the handler.
AfterCommitUnguarded(k, assignment_record, tokens, outcomes) ==
    LET tickets == Tickets(k, assignment_record.bug_report_id,
                           assignment_record.action, tokens, outcomes)
        raised  == \E i \in DOMAIN tickets : tickets[i].event = "except"
    IN  IF raised
        THEN [events   |-> SelectSeq(tickets, LAMBDA t : t.event # "except")
                             \o <<Event("raise", k,
                                        assignment_record.bug_report_id,
                                        assignment_record.action, "500")>>,
              response |-> [status |-> 500]]
        ELSE [events   |-> tickets
                             \o <<Event("return", k,
                                        assignment_record.bug_report_id,
                                        assignment_record.action, "200")>>,
              response |-> [status |-> 200, body |-> assignment_record]]

AfterCommit(k, assignment_record, tokens, outcomes) ==
    [events   |-> Tickets(k, assignment_record.bug_report_id,
                          assignment_record.action, tokens, outcomes)
                    \o <<Event("return", k, assignment_record.bug_report_id,
                               assignment_record.action, "200")>>,
     response |-> [status |-> 200, body |-> assignment_record]]

\* A variant that records the request before it looks the bug report up.
AssignBugCallRecordFirst(reports, records, k, assignment, tokens, outcomes) ==
    IF assignment.bug_id \notin DOMAIN reports
    THEN [bug_reports |-> reports,
          assignments |->
              [i \in DOMAIN records \cup {NextId(records)} |->
                  IF i = NextId(records)
                  THEN [id                 |-> i,
                        bug_report_id      |-> assignment.bug_id,
                        assigned_developer |-> "",
                        action             |-> assignment.action,
                        confidence_score   |-> None]
                  ELSE records[i]],
          events      |-> <<Event("add", k, assignment.bug_id,
                                  assignment.action, ""),
                            Event("commit", k, assignment.bug_id,
                                  assignment.action, ""),
                            Event("raise", k, assignment.bug_id,
                                  assignment.action, "404")>>,
          response    |-> [status |-> 404,
                           detail |-> "Bug report not found"]]
    ELSE LET bug_report == reports[assignment.bug_id]
             assigned_developer ==
                 IF Truthy(assignment.assigned_developer)
                 THEN assignment.assigned_developer
                 ELSE <<bug_report.predicted_developer>>
             id == NextId(records)
             assignment_record ==
                 [id                 |-> id,
                  bug_report_id      |-> assignment.bug_id,
                  assigned_developer |-> assigned_developer[1],
                  action             |-> assignment.action,
                  confidence_score   |-> bug_report.confidence_score]
             after == AfterCommit(k, assignment_record, tokens, outcomes)
         IN  [bug_reports |->
                  [reports EXCEPT ![assignment.bug_id] =
                      [bug_report EXCEPT
                          !.status = assignment.action,
                          !.assigned_developer = assigned_developer]],
              assignments |->
                  [i \in DOMAIN records \cup {id} |->
                      IF i = id THEN assignment_record ELSE records[i]],
              events      |->
                  <<Event("update", k, assignment.bug_id, assignment.action, ""),
                    Event("add", k, assignment.bug_id, assignment.action, ""),
                    Event("commit", k, assignment.bug_id, assignment.action, "")>>
                  \o after.events,
              response    |-> after.response]

\* assign_bug, lines 147-195, as the k-th call of a request, from the tables
\* it finds: the tables it leaves, what it did and its response.
\* assigned_at, the time of the call, is left out of the Assignment.
AssignBugCall(reports, records, k, assignment, tokens, outcomes) ==
    IF assignment.bug_id \notin DOMAIN reports
    THEN [bug_reports |-> reports,
          assignments |-> records,
          events      |-> <<Event("raise", k, assignment.bug_id,
                                  assignment.action, "404")>>,
          response    |-> [status |-> 404,
                           detail |-> "Bug report not found"]]
    ELSE LET bug_report == reports[assignment.bug_id]
             assigned_developer ==
                 IF Truthy(assignment.assigned_developer)
                 THEN assignment.assigned_developer
                 ELSE <<bug_report.predicted_developer>>
             id == NextId(records)
             assignment_record ==
                 [id                 |-> id,
                  bug_report_id      |-> assignment.bug_id,
                  assigned_developer |-> assigned_developer[1],
                  action             |-> assignment.action,
                  confidence_score   |-> bug_report.confidence_score]
             after == AfterCommit(k, assignment_record, tokens, outcomes)
         IN  [bug_reports |->
                  [reports EXCEPT ![assignment.bug_id] =
                      [bug_report EXCEPT
                          !.status = assignment.action,
                          !.assigned_developer = assigned_developer]],
              assignments |->
                  [i \in DOMAIN records \cup {id} |->
                      IF i = id THEN assignment_record ELSE records[i]],
              events      |->
                  <<Event("update", k, assignment.bug_id, assignment.action, ""),
                    Event("add", k, assignment.bug_id, assignment.action, ""),
                    Event("commit", k, assignment.bug_id, assignment.action, "")>>
                  \o after.events,
              response    |-> after.response]

\* A variant whose loop ends at the first call that fails.
RECURSIVE BulkCallsUntilFailure(_, _, _, _, _)
BulkCallsUntilFailure(reports, records, requests, tokens, outcomes) ==
    IF requests = <<>> THEN <<>>
    ELSE LET n      == Len(requests)
             before == BulkCallsUntilFailure(reports, records,
                                             SubSeq(requests, 1, n - 1),
                                             tokens, outcomes)
             found  == IF before = <<>>
                       THEN [bug_reports |-> reports, assignments |-> records]
                       ELSE before[Len(before)]
         IN  IF Len(before) < n - 1 \/ (before # <<>>
                                         /\ before[Len(before)].response.status # 200)
             THEN before
             ELSE Append(before,
                         AssignBugCall(found.bug_reports, found.assignments, n,
                                       requests[n], tokens, outcomes[n]))

\* The calls of bulk_assign_bugs's loop (lines 206-212), each from the
\* tables the one before left.
RECURSIVE BulkCalls(_, _, _, _, _)
BulkCalls(reports, records, requests, tokens, outcomes) ==
    IF requests = <<>> THEN <<>>
    ELSE LET n      == Len(requests)
             before == BulkCalls(reports, records, SubSeq(requests, 1, n - 1),
                                 tokens, outcomes)
             found  == IF before = <<>>
                       THEN [bug_reports |-> reports, assignments |-> records]
                       ELSE before[n - 1]
         IN  Append(before,
                    AssignBugCall(found.bug_reports, found.assignments, n,
                                  requests[n], tokens, outcomes[n]))

\* assign_bug as the handler of POST /assign-bug/
assign_bug(assignment, tokens, outcomes) ==
    \E done \in {AssignBugCall(bug_reports, assignments, 1, assignment,
                               tokens, outcomes)} :
        /\ bug_reports' = done.bug_reports
        /\ assignments' = done.assignments
        /\ request' = [op |-> "assign_bug", assignment |-> assignment]
        /\ journal' = done.events
        /\ response' = done.response
        /\ calls' = calls + 1
        /\ UNCHANGED <<engine, hashOrder, held, log, call, ret, trace, scored>>

\* bulk_assign_bugs, lines 197-214: the HTTPException of a call is caught
\* and reported in the results.
bulk_assign_bugs(requests, tokens, outcomes) ==
    \E done \in {BulkCalls(bug_reports, assignments, requests, tokens,
                           outcomes)} :
        /\ bug_reports' = IF done = <<>> THEN bug_reports
                          ELSE done[Len(done)].bug_reports
        /\ assignments' = IF done = <<>> THEN assignments
                          ELSE done[Len(done)].assignments
        /\ request' = [op |-> "bulk_assign_bugs", assignments |-> requests]
        /\ journal' = IF done = <<>> THEN <<>>
                      ELSE Join(<<>>, [k \in DOMAIN done |-> done[k].events])
        /\ response' =
               [status |-> 200,
                body   |-> [processed |-> Len(done),
                            results   |->
                                [k \in DOMAIN done |->
                                    IF done[k].response.status = 200
                                    THEN done[k].response.body
                                    ELSE [bug_id |-> requests[k].bug_id,
                                          error  |-> done[k].response.status]]]]
        /\ calls' = calls + 1
        /\ UNCHANGED <<engine, hashOrder, held, log, call, ret, trace, scored>>

\* delete_bug_report, lines 284-296; the row's assignments go with it
\* (cascade, src/database.py line 139).
delete_bug_report(report_id) ==
    /\ request' = [op |-> "delete_bug_report", report_id |-> report_id]
    /\ IF report_id \notin DOMAIN bug_reports
       THEN /\ response' = [status |-> 404,
                             detail |-> "Bug report not found"]
            /\ journal' = <<Event("raise", 0, report_id, "", "404")>>
            /\ UNCHANGED <<bug_reports, assignments>>
       ELSE /\ bug_reports' =
                   [i \in DOMAIN bug_reports \ {report_id} |-> bug_reports[i]]
            /\ assignments' =
                   [i \in {j \in DOMAIN assignments :
                              assignments[j].bug_report_id # report_id} |->
                       assignments[i]]
            /\ journal' = <<Event("delete", 0, report_id, "", ""),
                            Event("commit", 0, report_id, "", ""),
                            Event("return", 0, report_id, "", "200")>>
            /\ response' = [status |-> 200]
    /\ calls' = calls + 1
    /\ UNCHANGED <<engine, hashOrder, held, log, call, ret, trace, scored>>

(***************************************************************************)
(* The service under its clients.                                          *)
(***************************************************************************)
MaxRequests == 2

Files ==
    {[pdf |-> FALSE],
     [pdf |-> TRUE, text |-> FALSE],
     [pdf |-> TRUE, text |-> TRUE, bugs |-> <<>>, developers |-> <<>>],
     [pdf |-> TRUE, text |-> TRUE, bugs |-> <<Bug_slow, Bug_api>>,
      developers |-> <<Dev_Tina, Dev_Tom>>]}

BugIds == 1..2

\* schemas.AssignmentAction
AssignmentAction == {"approved", "rejected", "modified"}

AssignmentRequests ==
    [bug_id : BugIds, action : AssignmentAction,
     assigned_developer : {None, <<"Zed">>}]
        \cup {[bug_id |-> 3, action |-> "approved",
               assigned_developer |-> <<"Zed">>]}

BulkRequests ==
    {<<>>,
     <<[bug_id |-> 1, action |-> "approved", assigned_developer |-> None],
       [bug_id |-> 3, action |-> "rejected", assigned_developer |-> None],
       [bug_id |-> 2, action |-> "approved", assigned_developer |-> <<"Zed">>]>>}

\* Whether GITHUB_TOKEN and JIRA_TOKEN are set when the handler reads them.
Tokens == [github : BOOLEAN, jira : BOOLEAN]

TicketOutcomes == [github : {"created", "empty", "raises"},
                   jira   : {"created", "empty", "raises"}]

BulkOutcomes ==
    {[github |-> "created", jira |-> "created"],
     [github |-> "raises", jira |-> "created"],
     [github |-> "empty", jira |-> "raises"]}

Upload ==
    /\ calls < MaxRequests
    /\ \E file \in Files : upload_pdf(file)
    /\ UNCHANGED inflight

AssignBug ==
    /\ calls < MaxRequests
    /\ \E assignment \in AssignmentRequests, tokens \in Tokens,
          outcomes \in TicketOutcomes :
           assign_bug(assignment, tokens, outcomes)
    /\ UNCHANGED inflight

BulkAssign ==
    /\ calls < MaxRequests
    /\ \E requests \in BulkRequests, tokens \in Tokens :
           \E outcomes \in [DOMAIN requests -> BulkOutcomes] :
               bulk_assign_bugs(requests, tokens, outcomes)
    /\ UNCHANGED inflight

Delete ==
    /\ calls < MaxRequests
    /\ \E report_id \in BugIds : delete_bug_report(report_id)
    /\ UNCHANGED inflight

NextService == Upload \/ AssignBug \/ BulkAssign \/ Delete

SpecService == Init /\ [][NextService]_vars

(***************************************************************************)
(* Concurrent uploads.  upload_pdf is a coroutine on the one event loop of *)
(* the process, and a request runs until it awaits: its only await is      *)
(* file.read() at line 74.  What follows, the parser's batch on the shared *)
(* engine and the loop that stores the rows, is synchronous code, so it is *)
(* one step.                                                               *)
(***************************************************************************)
\* Lines 67-74: the request r begins, is refused if the name is no .pdf, and
\* otherwise is suspended in await file.read().
upload_pdf_begin(r, file) ==
    /\ r \notin DOMAIN inflight
    /\ IF ~file.pdf
       THEN /\ upload_pdf(file)
            /\ inflight' = [i \in DOMAIN inflight \cup {r} |->
                               IF i = r THEN [file |-> file, at |-> "done"]
                               ELSE inflight[i]]
       ELSE /\ inflight' = [i \in DOMAIN inflight \cup {r} |->
                               IF i = r THEN [file |-> file, at |-> "read"]
                               ELSE inflight[i]]
            /\ UNCHANGED <<engine, hashOrder, held, log, call, ret, trace,
                           scored, calls, service>>

\* Lines 74-108: the request r is resumed and runs to its end.
upload_pdf_resume(r) ==
    /\ r \in DOMAIN inflight
    /\ inflight[r].at = "read"
    /\ upload_pdf(inflight[r].file)
    /\ inflight' = [inflight EXCEPT ![r].at = "done"]

MaxUploads == 2

Begin ==
    \E r \in 1..MaxUploads, file \in Files : upload_pdf_begin(r, file)

Resume ==
    \E r \in 1..MaxUploads : upload_pdf_resume(r)

NextUploads == Begin \/ Resume

SpecUploads == Init /\ [][NextUploads]_vars

(***************************************************************************)
(* One engine whose every assign_bug_to_developer call is given the same   *)
(* developers: the first call chooses the records, the later calls pass    *)
(* the same records in any of the orders.                                  *)
(***************************************************************************)
MaxPairCalls == 6

PairBugs == {Bug_login, Bug_api}

PairDevLists ==
    {<<Dev_Tina, Dev_Tom, Dev_Sam>>, <<Dev_Sam, Dev_Tom, Dev_Tina>>,
     <<Dev_Tom, Dev_Tina>>, <<Dev_Tina, Dev_Tom, Dev_Tina2>>}

AssignPair ==
    /\ calls < MaxPairCalls
    /\ \E b \in PairBugs, d \in PairDevLists :
           /\ calls > 0 => Range(d) = Range(call.developers)
           /\ assign_bug_to_developer(b, d)
    /\ UNCHANGED <<service, inflight>>

NextPair == AssignPair

SpecPair == Init /\ [][NextPair]_vars

(***************************************************************************)
(* calculate_developer_scores applied once to the features that            *)
(* extract_features_from_bug produces for each of the bug records above,   *)
(* with a mid-level and a senior developer of a fresh engine.              *)
(***************************************************************************)
BonusDevs == <<Dev_Tina, Dev_Sam>>

ScoreFeatures ==
    /\ calls = 0
    /\ \E b \in ComplexityBugs :
           ScoreCall(extract_features_from_bug(b),
                     Profiles(BonusDevs, developer_workload,
                              historical_performance))
    /\ UNCHANGED <<service, inflight>>

NextBonus == ScoreFeatures

SpecBonus == Init /\ [][NextBonus]_vars

(***************************************************************************)
(* Claims.                                                                 *)
(***************************************************************************)
\* The candidates every scoring of the last operation returned.
Scored == UNION {Range(trace[k].developer_scores) : k \in DOMAIN trace}

\* C1: after any sequence of assign_bug_to_developer calls on one engine,
\* every candidate calculate_developer_scores returns has a confidence in
\* [0.30, 0.95].
C1_ConfidenceInRange ==
    \A c \in Scored :
        /\ c.confidence * 100 >= 30 * ConfOne
        /\ c.confidence * 100 <= 95 * ConfOne

\* A developer scored at workload 11: 0.30 + 0.65 * 0.15 * (1 - 11/10).
C1_BelowRange ==
    \E k \in DOMAIN trace :
        \E i \in DOMAIN trace[k].developer_scores :
            /\ trace[k].developer_profiles[i].current_workload = 11
            /\ trace[k].developer_scores[i].confidence =
                   29025 * (ConfOne \div 100000)

\* C2: assign_bug_to_developer called with an empty developer list returns
\* developer "Unassigned", confidence 0.30, reason "No suitable developer
\* found" and an alternatives field equal to the empty sequence.
C2_EmptyListResult ==
    (call.op = "assign" /\ call.developers = <<>>) =>
        /\ ret.developer = "Unassigned"
        /\ ret.confidence = 30
        /\ ret.reason = S_No_suitable_developer
        /\ "alternatives" \in DOMAIN ret
        /\ ret.alternatives = <<>>

\* The fallback as the code returns it: a dict without the key.
C2_FallbackWithoutAlternatives ==
    /\ call.op = "assign"
    /\ call.developers = <<>>
    /\ DOMAIN ret = {"developer", "confidence", "reason"}

\* Where the profile of a developer stands in the mapping a call was given.
Position(developer_profiles, name) ==
    CHOOSE i \in DOMAIN developer_profiles : developer_profiles[i].name = name

\* C3: the sequence calculate_developer_scores returns is ordered by
\* confidence non-increasing, and two candidates with equal confidence stand
\* in the order in which their profiles were supplied.
C3_SortedStable ==
    \A k \in DOMAIN trace :
        LET scores   == trace[k].developer_scores
            profiles == trace[k].developer_profiles
        IN  /\ Len(scores) = Len(profiles)
            /\ \A i, j \in DOMAIN scores :
                   i < j =>
                       /\ scores[i].confidence >= scores[j].confidence
                       /\ scores[i].confidence = scores[j].confidence
                              => Position(profiles, scores[i].developer)
                                     < Position(profiles, scores[j].developer)

\* A call whose result holds equal confidences and is not in the order of
\* its profiles.
C3_TieAfterReorder ==
    \E k \in DOMAIN trace :
        LET scores   == trace[k].developer_scores
            profiles == trace[k].developer_profiles
        IN  /\ \E i, j \in DOMAIN scores :
                   i < j /\ scores[i].confidence = scores[j].confidence
            /\ \E i, j \in DOMAIN scores :
                   /\ i < j
                   /\ Position(profiles, scores[i].developer)
                          > Position(profiles, scores[j].developer)

\* The assign_bug_to_developer calls of the last operation that chose the
\* developer name, as its result tells.
Wins(name) ==
    IF call.op = "assign" THEN (IF ret.developer = name THEN 1 ELSE 0)
    ELSE IF call.op = "batch"
         THEN Cardinality({k \in DOMAIN ret : ret[k].predicted_developer = name})
         ELSE 0

DevNames == {d.name : d \in AllDevs}

\* C4: across any sequence of operations a developer's workload counter
\* never decreases, and each assign_bug_to_developer call that selects the
\* developer increases it by exactly 1 (an operation changes it by the
\* number of its calls the developer won).
C4_WorkloadMonotone ==
    [][/\ DOMAIN developer_workload \subseteq DOMAIN developer_workload'
       /\ \A n \in DevNames \cup DOMAIN developer_workload' :
              /\ Get(developer_workload', n, 0) >= Get(developer_workload, n, 0)
              /\ Get(developer_workload', n, 0)
                     = Get(developer_workload, n, 0) + Wins(n)']_vars

\* A developer selected by a call who had been selected before.
C4_WonAgain ==
    /\ call.op = "assign"
    /\ ret.developer \in DOMAIN developer_workload
    /\ developer_workload[ret.developer] = 2

\* The number of places of seq that hold x.
Count(seq, x) == Cardinality({i \in DOMAIN seq : seq[i] = x})

\* What the last batch returned as winners, bug by bug.
BatchWinners == [k \in DOMAIN ret |-> ret[k].predicted_developer]

\* The winners logged before the last batch began.
LoggedBefore ==
    SubSeq(log, 1, Len(log) - Cardinality({k \in DOMAIN ret :
                                              BatchWinners[k] # "Unassigned"}))

\* C5: _assign_bugs_with_ml assigns the bugs one at a time in input order,
\* and the profile used to score bug k carries for each developer a
\* current_workload equal to the number of earlier bugs of the batch, plus
\* the earlier assignments on the engine, that the developer won.
C5_BatchSequential ==
    call.op = "batch" =>
        /\ Len(ret) = Len(call.bugs)
        /\ Len(trace) = Len(call.bugs)
        /\ \A k \in DOMAIN call.bugs :
               /\ ret[k].title = call.bugs[k].title
               /\ ret[k].severity = call.bugs[k].severity
               /\ trace[k].bug_features.title = call.bugs[k].title
               /\ trace[k].bug_features.severity = call.bugs[k].severity
               /\ \A i \in DOMAIN trace[k].developer_profiles :
                      LET p == trace[k].developer_profiles[i]
                      IN  p.current_workload
                              = Count(LoggedBefore, p.name)
                                + Count(SubSeq(BatchWinners, 1, k - 1), p.name)

\* A batch whose third bug was scored with a developer at workload 2, one
\* won before the batch and one won in it.
C5_LaterBugSeesWins ==
    /\ call.op = "batch"
    /\ Len(trace) = 3
    /\ \E i \in DOMAIN trace[3].developer_profiles :
           /\ trace[1].developer_profiles[i].current_workload = 1
           /\ trace[3].developer_profiles[i].current_workload = 2

\* C6: with n >= 1 candidates, assign_bug_to_developer chooses the candidate
\* at rank 0 (none has a higher confidence), and alternatives is exactly the
\* candidates at ranks 1..min(3, n-1) in ranking order: at most 3 entries,
\* never the winner, none with a confidence above the winner's.
C6_WinnerAndAlternatives ==
    (call.op = "assign" /\ trace[1].developer_profiles # <<>>) =>
        LET ranked == trace[1].developer_scores
            n      == Len(ranked)
        IN  /\ n = Len(trace[1].developer_profiles)
            /\ ret.developer = ranked[1].developer
            /\ ret.reason = ranked[1].reason
            /\ ret.confidence \in {Round2(ranked[1].confidence, up) :
                                      up \in BOOLEAN}
            /\ \A i \in DOMAIN ranked :
                   ranked[i].confidence <= ranked[1].confidence
            /\ Len(ret.alternatives) = Min(3, n - 1)
            /\ Len(ret.alternatives) <= 3
            /\ \A r \in DOMAIN ret.alternatives :
                   LET a == ret.alternatives[r]
                   IN  /\ a.developer = ranked[r + 1].developer
                       /\ a.reason = ranked[r + 1].reason
                       /\ a.confidence \in {Round2(ranked[r + 1].confidence, up) :
                                               up \in BOOLEAN}
                       /\ a.developer # ret.developer
                       /\ a.confidence <= ret.confidence

\* An assignment among five candidates: three alternatives, one left out.
C6_FiveCandidates ==
    /\ call.op = "assign"
    /\ Len(trace[1].developer_scores) = 5
    /\ Len(ret.alternatives) = 3

\* The confidence a returned sequence gives a developer.
ConfidenceOf(developer_scores, name) ==
    (CHOOSE c \in Range(developer_scores) : c.developer = name).confidence

\* Two profiles that differ in nothing but the name they stand under and
\* current_workload.
SameButWorkload(p, q) ==
    [p EXCEPT !.name = "", !.current_workload = 0]
        = [q EXCEPT !.name = "", !.current_workload = 0]

\* C7: of two developer profiles identical except for current_workload (in
\* particular 0 versus 9), calculate_developer_scores gives the one with the
\* lower workload a strictly higher confidence.
C7_LowerWorkloadScoresHigher ==
    call.op = "score" =>
        LET profiles == Contents(call.developer_profiles, historical_performance)
        IN  \A i, j \in DOMAIN profiles :
                (/\ SameButWorkload(profiles[i], profiles[j])
                 /\ profiles[i].current_workload < profiles[j].current_workload)
                    => ConfidenceOf(ret, profiles[i].name)
                           > ConfidenceOf(ret, profiles[j].name)

\* A scoring of two such profiles at workloads 0 and 9.
C7_ZeroVersusNine ==
    /\ call.op = "score"
    /\ \E i, j \in DOMAIN call.developer_profiles :
           /\ SameButWorkload(call.developer_profiles[i],
                              call.developer_profiles[j])
           /\ call.developer_profiles[i].current_workload = 0
           /\ call.developer_profiles[j].current_workload = 9
           /\ ConfidenceOf(ret, call.developer_profiles[i].name)
                  > ConfidenceOf(ret, call.developer_profiles[j].name)

\* C8: calculate_developer_scores is deterministic and does not mutate
\* engine state: a call with the bug features and the profiles of the call
\* before it, with no assignment in between, returns the sequence that call
\* returned, and the workload and performance maps are the same before and
\* after each call.
C8_ScoringPure ==
    [][call'.op = "score" =>
           /\ developer_workload' = developer_workload
           /\ historical_performance' = historical_performance
           /\ developer_expertise' = developer_expertise
           /\ scored'[1].again => ret' = scored[1].developer_scores]_vars

\* A second call with the arguments of the first, returning two or more
\* candidates.
C8_ScoredAgain ==
    /\ call.op = "score"
    /\ scored # <<>>
    /\ scored[1].again
    /\ Len(ret) >= 2

\* The scenario of C9: the first call on an engine assigns the bug "Login
\* broken" with the single developer Frank.
C9_Scenario ==
    /\ calls = 1
    /\ call.op = "assign"
    /\ call.bug_data = Bug_login
    /\ call.developers = <<Dev_Frank>>

\* C9: on a fresh engine, assigning the bug "Login broken" (no component
\* given) with the single developer Frank yields a score that includes the
\* module-match contribution (+0.30) and a non-zero expertise-overlap
\* contribution, and a confidence above 0.60.
C9_ModuleAndOverlap ==
    C9_Scenario =>
        LET f == trace[1].bug_features
            p == trace[1].developer_profiles[1]
        IN  /\ ModuleScore(f, p) = (ScoreOne * 3) \div 10
            /\ ExpertiseScore(f, p) > 0
            /\ trace[1].developer_scores[1].confidence > 60 * (ConfOne \div 100)
            /\ ret.confidence > 60

\* C9 as the code has it: the component defaults to "General", which is
\* none of Frank's modules, and no keyword of the vocabulary occurs in the
\* bug's text, so the score is the workload contribution 0.15 alone, the
\* confidence 0.3975, and the result Frank at 0.40 for "Available capacity".
C9_WorkloadOnly ==
    C9_Scenario =>
        LET f == trace[1].bug_features
            p == trace[1].developer_profiles[1]
        IN  /\ f.component = S_General
            /\ ModuleScore(f, p) = 0
            /\ f.tech_keywords = {}
            /\ ExpertiseScore(f, p) = 0
            /\ Score(f, p, historical_performance) = (ScoreOne * 15) \div 100
            /\ Len(trace[1].developer_scores) = 1
            /\ trace[1].developer_scores[1].confidence
                   = 3975 * (ConfOne \div 10000)
            /\ ret = [developer    |-> "Frank",
                      confidence   |-> 40,
                      reason       |-> S_Available_capacity,
                      alternatives |-> <<>>]

\* The scenario has run and Frank has the bug.
C9_FrankAssigned ==
    /\ C9_Scenario
    /\ ret.developer = "Frank"
    /\ developer_workload = [n \in {"Frank"} |-> 1]

\* The words of the vocabularies that occur in a text, whatever their case.
KeywordsIn(text) ==
    {w \in Range(tech_patterns) : Contains(lower(text), w)}

\* C10: _calculate_bug_complexity returns min(s + l + t + k, 1.0), with s
\* 1.0/0.75/0.5/0.25 for Critical/High/Medium/Low and 0.5 for any other or
\* missing severity, l 0.3 for a description longer than 500 characters,
\* 0.15 for one longer than 200 and at most 500, else 0, t 0.2 iff the stack
\* trace is non-empty, and k min(0.1 x number of keywords in title and
\* description, 0.3); the result lies in [0, 1], and a Low bug with empty
\* title, description and stack trace gets exactly 0.25.  In hundredths.
C10_ComplexityFormula ==
    call.op = "complexity" =>
        LET b           == call.bug_data
            title       == IF "title" \in DOMAIN b THEN b.title ELSE <<>>
            description == IF "description" \in DOMAIN b THEN b.description
                           ELSE <<>>
            stack_trace == IF "stack_trace" \in DOMAIN b THEN b.stack_trace
                           ELSE <<>>
            severity    == IF "severity" \in DOMAIN b THEN b.severity ELSE ""
            s == CASE severity = "Critical" -> 100
                   [] severity = "High"     -> 75
                   [] severity = "Medium"   -> 50
                   [] severity = "Low"      -> 25
                   [] OTHER                 -> 50
            l == IF Len(description) > 500 THEN 30
                 ELSE IF Len(description) > 200 /\ Len(description) <= 500
                      THEN 15 ELSE 0
            t == IF stack_trace # <<>> THEN 20 ELSE 0
            n == Cardinality(KeywordsIn(title) \cup KeywordsIn(description))
            k == IF 10 * n <= 30 THEN 10 * n ELSE 30
        IN  /\ ret = (IF s + l + t + k <= 100 THEN s + l + t + k ELSE 100)
            /\ ret >= 0
            /\ ret <= 100
            /\ (/\ severity = "Low"
                /\ title = <<>>
                /\ description = <<>>
                /\ stack_trace = <<>>) => ret = 25

\* The complexity of {severity: "Low", title: "", description: "",
\* stack_trace: ""} has been computed, and is 0.25.
C10_LowEmptyBug ==
    /\ call.op = "complexity"
    /\ call.bug_data = [title |-> S_empty, description |-> S_empty,
                        severity |-> "Low", stack_trace |-> S_empty]
    /\ ret = 25

\* str.upper() on one character, and on a string.
UpperChar(c) ==
    IF \E i \in DOMAIN LowerChars : LowerChars[i] = c
    THEN UpperChars[CHOOSE i \in DOMAIN LowerChars : LowerChars[i] = c]
    ELSE c

upper(s) == [i \in 1..Len(s) |-> UpperChar(s[i])]

\* C11: for every string s over the alphabet, _extract_technical_keywords
\* returns the same set of vocabulary terms for s, for s upper-cased and for
\* s lower-cased, and the empty set for the empty string.
C11_CaseInsensitive ==
    call.op = "keywords" =>
        /\ ret = _extract_technical_keywords(upper(call.text))
        /\ ret = _extract_technical_keywords(lower(call.text))
        /\ ret \subseteq Range(tech_patterns)
        /\ call.text = <<>> => ret = {}

\* The text "Go+", which is neither its upper-cased nor its lower-cased
\* form, and the keyword found in it.
C11_MixedCaseGo ==
    /\ call.op = "keywords"
    /\ call.text = <<"G", "o", "+">>
    /\ upper(call.text) # call.text
    /\ lower(call.text) # call.text
    /\ ret = {<<"g", "o">>}

\* The developer lists the last operation built profiles from, each with the
\* profiles built and the candidates scored from them.
Built ==
    IF call.op = "build"
    THEN {[developers |-> call.developers, profiles |-> ret, scored |-> FALSE]}
    ELSE IF call.op \in {"assign", "batch"}
         THEN {[developers |-> call.developers,
                profiles   |-> trace[k].developer_profiles,
                scored     |-> TRUE,
                scores     |-> trace[k].developer_scores] : k \in DOMAIN trace}
         ELSE {}

NameOf(dev) == IF "name" \in DOMAIN dev THEN dev.name ELSE ""

\* The last record of a list under a name.
LastNamed(developers, name) ==
    developers[CHOOSE i \in DOMAIN developers :
                   /\ NameOf(developers[i]) = name
                   /\ \A j \in DOMAIN developers :
                          NameOf(developers[j]) = name => j <= i]

\* C12: when the developer list holds several records with the same name,
\* the mapping build_developer_profiles returns has exactly one profile for
\* that name, built from the last such record; the scored sequence then has
\* exactly one candidate per distinct name.
C12_LastRecordWins ==
    \A b \in Built :
        LET names == {NameOf(b.developers[i]) : i \in DOMAIN b.developers}
        IN  /\ Len(b.profiles) = Cardinality(names)
            /\ {b.profiles[i].name : i \in DOMAIN b.profiles} = names
            /\ \A i \in DOMAIN b.profiles :
                   LET p    == b.profiles[i]
                       last == ExpertiseTable[LastNamed(b.developers, p.name)]
                   IN  /\ p.skills = last.skills
                       /\ p.modules = last.modules
                       /\ p.expertise_domains = last.expertise_domains
                       /\ p.experience_level = last.experience_level
            /\ b.scored =>
                   /\ Len(b.scores) = Cardinality(names)
                   /\ {b.scores[i].developer : i \in DOMAIN b.scores} = names

\* An assignment over two records named Tina and one named Sam: two
\* candidates, and Tina's profile has the skills of her second record.
C12_TwoTinas ==
    /\ call.op = "assign"
    /\ call.developers = <<Dev_Tina, Dev_Sam, Dev_Tina2>>
    /\ Len(trace[1].developer_scores) = 2
    /\ \E i \in DOMAIN trace[1].developer_profiles :
           /\ trace[1].developer_profiles[i].name = "Tina"
           /\ trace[1].developer_profiles[i].skills = lower(S_Go)
           /\ trace[1].developer_profiles[i].modules = <<>>

\* The fragment of a component that was triggered, none otherwise.
Fragment(triggered, text) == IF triggered THEN <<text>> ELSE <<>>

\* C13: for every candidate, the reason string is the triggered fragments
\* joined by "; " in the order Expertise, Module expert, Available capacity,
\* Senior dev for critical bug, High success rate, and it is the literal
\* "General assignment based on availability" if and only if no fragment was
\* triggered.
C13_ReasonString ==
    \A k \in DOMAIN trace :
        \A c \in Range(trace[k].developer_scores) :
            \E i \in DOMAIN trace[k].developer_profiles :
                LET f         == trace[k].bug_features
                    p         == trace[k].developer_profiles[i]
                    both      == f.tech_keywords \cap p.expertise_domains
                    module    == \E m \in Range(p.modules) :
                                     lower(m) = lower(f.component)
                    capacity  == p.current_workload < 3
                    senior    == /\ f.severity \in {"Critical", "High"}
                                 /\ p.experience_level = "senior"
                    rate      == PerformanceOf(p, historical_performance).success_rate
                    success   == rate[1] * 100 > 85 * rate[2]
                    none      == /\ both = {}
                                 /\ ~module
                                 /\ ~capacity
                                 /\ ~senior
                                 /\ ~success
                IN  /\ p.name = c.developer
                    /\ \E listed \in Orderings(both) :
                           LET fragments ==
                                   Fragment(both # {},
                                            S_Expertise
                                              \o Join(S_comma, Prefix(listed, 3)))
                                   \o Fragment(module, S_Module_expert \o f.component)
                                   \o Fragment(capacity, S_Available_capacity)
                                   \o Fragment(senior, S_Senior_dev)
                                   \o Fragment(success, S_High_success_rate)
                           IN  c.reason = IF none THEN S_General_assignment
                                          ELSE Join(S_semicolon, fragments)
                    /\ (c.reason = S_General_assignment) <=> none

\* One scoring gave a candidate the fallback and another candidate several
\* fragments.
C13_FallbackAndJoined ==
    \E k \in DOMAIN trace :
        \E c, d \in Range(trace[k].developer_scores) :
            /\ c.reason = S_General_assignment
            /\ \E i \in 1..(Len(d.reason) - 1) :
                   SubSeq(d.reason, i, i + 1) = S_semicolon

\* C14: the result of assign_bug_to_developer and the workload map it leaves
\* are determined by the bug, the developer list, the workload map, the
\* performance map and the process's set-listing order; the contents of the
\* developer_expertise cache do not enter.  Two engine states that agree on
\* the workload and performance maps therefore give the same results and the
\* same successor workload maps, whatever their caches hold.
C14_CacheIndependent ==
    [][call'.op = "assign" =>
          \E step \in {AssignStep(call'.bug_data, call'.developers,
                                  developer_workload, historical_performance,
                                  hashOrder')} :
              /\ developer_workload' = step.workload
              /\ \E up \in TieSides(step.developer_scores) :
                     ret' = Result(step.developer_scores, up)]_vars

\* An assignment on an engine whose cache held profiles from an earlier
\* call: a profile for Tom, who is not in the list, and one for the winner
\* with the workload of before her first win.
C14_AssignedOverCache ==
    /\ call.op = "assign"
    /\ call.developers = <<Dev_Tina, Dev_Sam, Dev_Tina2>>
    /\ ret.developer # "Unassigned"
    /\ "Tom" \in DOMAIN developer_expertise
    /\ developer_workload[ret.developer] = 2
    /\ developer_expertise[ret.developer].current_workload = 1

\* C15: the workload map and the performance map of an engine are empty at
\* construction; the workload map is changed by assign_bug_to_developer only,
\* called directly or from _assign_bugs_with_ml's loop, and the performance
\* map is changed by update_historical_performance only.
C15_MapsAndTheirWriters ==
    /\ developer_workload = EmptyMap
    /\ historical_performance = EmptyMap
    /\ [][/\ developer_workload' # developer_workload =>
                 call'.op \in {"assign", "batch"}
          /\ historical_performance' # historical_performance =>
                 call'.op = "update"]_vars

\* The statement as written: no operation other than assign_bug_to_developer
\* changes either map.
C15_OnlyAssignWrites ==
    [][(\/ developer_workload' # developer_workload
        \/ historical_performance' # historical_performance) =>
           call'.op \in {"assign", "batch"}]_vars

\* update_historical_performance has recorded a resolution on an engine
\* whose workload map an assignment had filled.
C15_UpdatedAfterAssign ==
    /\ call.op = "update"
    /\ call.developer \in DOMAIN historical_performance
    /\ historical_performance[call.developer].total_assignments = 1
    /\ call.developer \in DOMAIN developer_workload

\* The entries in which two maps differ: the keys of one only, and the keys
\* of both with different values.
Differing(a, b) ==
    {n \in DOMAIN a \cup DOMAIN b :
        \/ n \notin DOMAIN a
        \/ n \notin DOMAIN b
        \/ a[n] # b[n]}

\* C16: an assign_bug_to_developer call, made directly or from the batch
\* loop, changes the workload entry of the winning developer and no other
\* workload entry, and changes no historical-performance entry; a call that
\* returns the "Unassigned" fallback changes no workload entry at all.
C16_OnlyWinnerEntry ==
    [][call'.op \in {"assign", "batch"} =>
          /\ historical_performance' = historical_performance
          /\ developer_workload' =
                 IF trace' = <<>> THEN developer_workload
                 ELSE trace'[Len(trace')].workload
          /\ \A k \in DOMAIN trace' :
                 LET found == IF k = 1 THEN developer_workload
                              ELSE trace'[k - 1].workload
                     left  == trace'[k].workload
                 IN  IF trace'[k].developer_scores = <<>>
                     THEN left = found
                     ELSE Differing(found, left) =
                              {trace'[k].developer_scores[1].developer}
          /\ (call'.op = "assign" /\ "alternatives" \notin DOMAIN ret') =>
                 developer_workload' = developer_workload
          /\ (call'.op = "assign" /\ "alternatives" \in DOMAIN ret') =>
                 Differing(developer_workload, developer_workload') =
                     {ret'.developer}]_vars

\* An assignment won on an engine whose workload map held the entries of two
\* other developers, which are as the batch before had left them.
C16_WonBesideOthers ==
    /\ call.op = "assign"
    /\ "alternatives" \in DOMAIN ret
    /\ developer_workload[ret.developer] = 1
    /\ \E n, m \in DOMAIN developer_workload \ {ret.developer} :
           /\ developer_workload[n] = 2
           /\ developer_workload[m] = 1

\* 0.40 x overlap / keywords of a bug that has keywords, in units of
\* 1/ScoreOne.
ExpertiseShare(overlap, keywords) == (4 * overlap * ScoreOne) \div (10 * keywords)

\* C17: for every bug and profile scored, the expertise contribution to the
\* score is 0.40 x |bugKeywords \cap devExpertise| / |bugKeywords| when the
\* bug has at least one keyword and 0 when it has none, and it is at most
\* 0.40: the candidate's confidence is 0.30 + 0.65 x the sum of that
\* contribution and the other four, capped at 1.
C17_ExpertiseContribution ==
    \A k \in DOMAIN trace :
        \A c \in Range(trace[k].developer_scores) :
            \E i \in DOMAIN trace[k].developer_profiles :
                LET f        == trace[k].bug_features
                    p        == trace[k].developer_profiles[i]
                    keywords == Cardinality(f.tech_keywords)
                    overlap  == Cardinality(f.tech_keywords
                                              \cap p.expertise_domains)
                    share    == IF keywords = 0 THEN 0
                                ELSE ExpertiseShare(overlap, keywords)
                IN  /\ p.name = c.developer
                    /\ keywords > 0 =>
                           10 * keywords * share = 4 * overlap * ScoreOne
                    /\ 10 * share <= 4 * ScoreOne
                    /\ c.confidence =
                           (30 * ConfOne) \div 100
                             + 65 * Min(share
                                          + ModuleScore(f, p)
                                          + WorkloadScore(p)
                                          + ExperienceScore(f, p)
                                          + PerformanceScore(p, historical_performance),
                                        ScoreOne)

\* One batch scored a bug without keywords and a bug of which a developer
\* knows some keywords but not all.
C17_NoneAndPartial ==
    /\ \E k \in DOMAIN trace : trace[k].bug_features.tech_keywords = {}
    /\ \E k \in DOMAIN trace :
           \E i \in DOMAIN trace[k].developer_profiles :
               LET both == trace[k].bug_features.tech_keywords
                             \cap trace[k].developer_profiles[i].expertise_domains
               IN  /\ both # {}
                   /\ both # trace[k].bug_features.tech_keywords
                   /\ both # trace[k].developer_profiles[i].expertise_domains

\* The assign_bug calls of the last request, by their place in it.
AssignBugRequests ==
    IF request.op = "assign_bug" THEN <<request.assignment>>
    ELSE IF request.op = "bulk_assign_bugs" THEN request.assignments
    ELSE <<>>

\* C18: every row upload_pdf creates is stored with status "pending" and
\* with the developer, confidence and reason the engine returned for that
\* bug, rows are created by upload_pdf only, and the status of a row stays
\* "pending" in every step that is not an assign_bug call for its id, for as
\* long as the row exists.
C18_PendingUntilAssigned ==
    [][/\ DOMAIN bug_reports' \ DOMAIN bug_reports # {} =>
              /\ request'.op = "upload_pdf"
              /\ response'.status = 200
              /\ DOMAIN bug_reports' \ DOMAIN bug_reports =
                     {response'.body[i].id : i \in DOMAIN response'.body}
       /\ (request'.op = "upload_pdf" /\ response'.status = 200
             /\ response'.body # <<>>) =>
              /\ Len(response'.body) = Len(ret')
              /\ Len(response'.body) = Len(trace')
              /\ \A i \in DOMAIN response'.body :
                     LET id     == response'.body[i].id
                         row    == bug_reports'[id]
                         winner == trace'[i].developer_scores[1]
                     IN  /\ id \notin DOMAIN bug_reports
                         /\ row = response'.body[i].row
                         /\ row.status = "pending"
                         /\ row.assigned_developer = None
                         /\ row.title = call'.bugs[i].title
                         /\ row.predicted_developer = ret'[i].predicted_developer
                         /\ row.confidence_score = ret'[i].confidence
                         /\ row.assignment_reason = ret'[i].reason
                         /\ row.predicted_developer = winner.developer
                         /\ row.assignment_reason = winner.reason
                         /\ \E up \in BOOLEAN :
                                row.confidence_score =
                                    Round2(winner.confidence, up)
       /\ \A id \in DOMAIN bug_reports :
              bug_reports[id].status = "pending" =>
                  \/ id \notin DOMAIN bug_reports'
                  \/ bug_reports'[id].status = "pending"
                  \/ \E k \in DOMAIN AssignBugRequests' :
                         AssignBugRequests'[k].bug_id = id]_vars

\* After an upload of two bugs the first was rejected: the second is still
\* pending, with the developer, confidence and reason the engine gave.
C18_SecondStillPending ==
    /\ request.op = "assign_bug"
    /\ request.assignment.bug_id = 1
    /\ DOMAIN bug_reports = {1, 2}
    /\ bug_reports[1].status = "rejected"
    /\ bug_reports[2].status = "pending"
    /\ bug_reports[2].title = S_API_crash
    /\ bug_reports[2].predicted_developer = ret[2].predicted_developer
    /\ bug_reports[2].confidence_score = ret[2].confidence
    /\ bug_reports[2].assignment_reason = ret[2].reason
    /\ bug_reports[2].assignment_reason # S_AI_based_assignment

\* The events of the journal that attempt a ticket.
TicketEvents == {i \in DOMAIN journal : journal[i].event \in {"github", "jira"}}

\* C19: a ticket (GitHub issue, JIRA ticket) is attempted for a bug only
\* inside an assign_bug call for that bug whose action is "approved", never
\* by upload_pdf and never for "rejected" or "modified", and only after that
\* call has updated the status, added its Assignment record and committed.
C19_TicketsAfterApprovedCommit ==
    \A i \in TicketEvents :
        LET k == journal[i].call
        IN  /\ request.op \in {"assign_bug", "bulk_assign_bugs"}
            /\ k \in DOMAIN AssignBugRequests
            /\ AssignBugRequests[k].action = "approved"
            /\ AssignBugRequests[k].bug_id = journal[i].bug_id
            /\ journal[i].action = "approved"
            /\ \E u, a, c \in 1..(i - 1) :
                   /\ u < a
                   /\ a < c
                   /\ journal[u].event = "update"
                   /\ journal[a].event = "add"
                   /\ journal[c].event = "commit"
                   /\ \A j \in {u, a, c} :
                          /\ journal[j].call = k
                          /\ journal[j].bug_id = journal[i].bug_id
                          /\ journal[j].action = "approved"

\* An approved assign_bug created both tickets, after its commit, for a bug
\* whose row and Assignment record are in the tables.
C19_BothTicketsCreated ==
    /\ request.op = "assign_bug"
    /\ request.assignment.action = "approved"
    /\ Len(journal) = 6
    /\ journal[3].event = "commit"
    /\ journal[4].event = "github"
    /\ journal[4].outcome = "created"
    /\ journal[5].event = "jira"
    /\ journal[5].outcome = "created"
    /\ bug_reports[request.assignment.bug_id].status = "approved"
    /\ \E id \in DOMAIN assignments :
           assignments[id].bug_report_id = request.assignment.bug_id

\* The assign_bug calls of the last request in which a ticket attempt
\* failed: the integration raised or returned an empty result.
FailedTicketCalls ==
    {journal[i].call : i \in {j \in TicketEvents :
                                 journal[j].outcome \in {"raises", "empty"}}}

\* The response of the k-th assign_bug call of the last request.
ResponseOfCall(k) ==
    IF request.op = "assign_bug" THEN response
    ELSE IF "id" \in DOMAIN response.body.results[k]
         THEN [status |-> 200, body |-> response.body.results[k]]
         ELSE [status |-> response.body.results[k].error]

\* C20: when a ticket attempt of an approved assign_bug call fails, the call
\* still returns the Assignment response, no exception leaves it, and the
\* tables hold what it committed: its Assignment record, and on the bug's
\* row the status and the assigned developer (the requested one, else the
\* predicted one), unless a later call of the same bulk request wrote the
\* row again.
C20_TicketFailureContained ==
    \A k \in FailedTicketCalls :
        LET assignment == AssignBugRequests[k]
            answer     == ResponseOfCall(k)
            row        == bug_reports[assignment.bug_id]
            developer  == IF assignment.assigned_developer # None
                             /\ assignment.assigned_developer[1] # ""
                          THEN assignment.assigned_developer[1]
                          ELSE row.predicted_developer
            last       == \A j \in DOMAIN AssignBugRequests :
                              j > k => AssignBugRequests[j].bug_id
                                           # assignment.bug_id
        IN  /\ answer.status = 200
            /\ answer.body.bug_report_id = assignment.bug_id
            /\ answer.body.action = "approved"
            /\ answer.body.assigned_developer = developer
            /\ answer.body.confidence_score = row.confidence_score
            /\ answer.body.id \in DOMAIN assignments
            /\ assignments[answer.body.id] = answer.body
            /\ \E i \in DOMAIN journal :
                   /\ journal[i].call = k
                   /\ journal[i].event = "return"
            /\ ~\E i \in DOMAIN journal :
                   /\ journal[i].call = k
                   /\ journal[i].event = "raise"
            /\ last => /\ row.status = "approved"
                       /\ row.assigned_developer = <<developer>>

\* An approved assign_bug in which GitHub returned an empty result and JIRA
\* raised: the exception was caught and the response is the Assignment.
C20_EmptyThenRaised ==
    /\ request.op = "assign_bug"
    /\ \E i, j \in DOMAIN journal :
           /\ journal[i].event = "github"
           /\ journal[i].outcome = "empty"
           /\ journal[j].event = "jira"
           /\ journal[j].outcome = "raises"
    /\ \E i \in DOMAIN journal : journal[i].event = "except"
    /\ response.status = 200
    /\ bug_reports[request.assignment.bug_id].status = "approved"

\* The sum of the counters of a workload map.
RECURSIVE WorkloadSum(_)
WorkloadSum(workload) ==
    IF DOMAIN workload = {} THEN 0
    ELSE LET n == CHOOSE m \in DOMAIN workload : TRUE
         IN  workload[n]
               + WorkloadSum([m \in DOMAIN workload \ {n} |-> workload[m]])

\* C21: under any interleaving of upload_pdf requests on the shared engine,
\* the batch of a request starts from the counters the engine has when the
\* request is resumed and every bug of it is counted on top of the one
\* before, so no increment is lost: in every state, and so when all requests
\* have finished, each developer's counter is the number of bugs assigned to
\* that developer and the sum of the counters is the number of bugs
\* assigned.
C21_NoLostIncrement ==
    /\ [](/\ WorkloadSum(developer_workload) = Len(log)
          /\ \A n \in DOMAIN developer_workload \cup Range(log) :
                 /\ n \in DOMAIN developer_workload
                 /\ developer_workload[n] = Count(log, n))
    /\ [][(calls' # calls /\ request'.op = "upload_pdf"
             /\ request'.file.pdf /\ request'.file.text) =>
              /\ call'.op = "batch"
              /\ trace' # <<>>
              /\ \A k \in DOMAIN trace' :
                     \A i \in DOMAIN trace'[k].developer_profiles :
                         LET p     == trace'[k].developer_profiles[i]
                             found == IF k = 1 THEN developer_workload
                                      ELSE trace'[k - 1].workload
                         IN  p.current_workload = Get(found, p.name, 0)
              /\ developer_workload' = trace'[Len(trace')].workload
              /\ Len(log') = Len(log) + Len(trace')]_vars

\* Two requests with a readable .pdf have finished, the batch of the second
\* before the batch of the first, and the five bugs of both are assigned.
C21_BothFinished ==
    /\ DOMAIN inflight = {1, 2}
    /\ inflight[1].at = "done"
    /\ inflight[2].at = "done"
    /\ inflight[1].file.pdf
    /\ inflight[2].file.pdf
    /\ Len(bug_reports) = 5
    /\ bug_reports[1].title = S_Slow_page
    /\ inflight[1].file.bugs = <<>>
    /\ Len(log) = 5
    /\ WorkloadSum(developer_workload) = 5

\* Two records with identical skills, contributions and modules.
Alike(a, b) ==
    /\ Get(a, "skills", S_empty) = Get(b, "skills", S_empty)
    /\ Get(a, "contributions", S_empty) = Get(b, "contributions", S_empty)
    /\ Get(a, "modules", <<>>) = Get(b, "modules", <<>>)

\* C22: on a fresh engine with no performance update whose every
\* assign_bug_to_developer call is given the same developers, two
\* developers of the list whose records (the last record under each name)
\* have identical skills, contributions and modules have workloads that
\* differ by at most 1 after any sequence of assignments.
C22_AlikeWithinOne ==
    (calls > 0 /\ call.op = "assign") =>
        \A a, b \in {NameOf(d) : d \in Range(call.developers)} :
            Alike(LastNamed(call.developers, a),
                  LastNamed(call.developers, b)) =>
                /\ Get(developer_workload, a, 0)
                       - Get(developer_workload, b, 0) <= 1
                /\ Get(developer_workload, b, 0)
                       - Get(developer_workload, a, 0) <= 1

\* Six bugs went to Tina, Tom and Sam; Tina and Tom, who are alike, won five
\* of them, three and two.
C22_ThreeAndTwo ==
    /\ calls = 6
    /\ Range(call.developers) = {Dev_Tina, Dev_Tom, Dev_Sam}
    /\ Get(developer_workload, "Sam", 0) = 1
    /\ Get(developer_workload, "Tom", 0) = 3
    /\ Get(developer_workload, "Tina", 0) = 2
    /\ historical_performance = EmptyMap

\* The result of line 259-264: no candidate was scored.
IsFallback(result) ==
    /\ result.developer = "Unassigned"
    /\ "alternatives" \notin DOMAIN result

\* The number of assign_bug_to_developer calls of the step just taken that
\* returned a developer and not the fallback.
ReturnedDeveloper(op, result, steps) ==
    IF op = "assign" THEN (IF IsFallback(result) THEN 0 ELSE 1)
    ELSE IF op = "batch"
         THEN Len(SelectSeq(result,
                            LAMBDA b : b.predicted_developer # "Unassigned"))
         ELSE 0

\* C23: in every reachable state of an engine the sum of all workload
\* counters is the number of completed assign_bug_to_developer calls that
\* returned a developer other than the "Unassigned" fallback: every
\* operation adds to the sum the number of its calls that returned a
\* developer, and nothing else changes it.
C23_SumIsAssignedCalls ==
    /\ [](WorkloadSum(developer_workload) = Len(log))
    /\ [][/\ WorkloadSum(developer_workload')
               = WorkloadSum(developer_workload)
                   + (IF calls' = calls THEN 0
                      ELSE ReturnedDeveloper(call'.op, ret', trace'))
          /\ Len(log') - Len(log)
               = WorkloadSum(developer_workload')
                   - WorkloadSum(developer_workload)]_vars

\* A batch of three bugs was assigned, then a call with no developers
\* returned the fallback: the sum of the counters is still 3.
C23_FallbackAfterBatch ==
    /\ calls = 2
    /\ call.op = "assign"
    /\ call.developers = <<>>
    /\ IsFallback(ret)
    /\ Len(log) = 3
    /\ WorkloadSum(developer_workload) = 3

\* The score of a profile with nothing for a mid-level developer.
ScoreWithoutMidBonus(bug_features, profile, performance) ==
    Min(ExpertiseScore(bug_features, profile)
          + ModuleScore(bug_features, profile)
          + WorkloadScore(profile)
          + (IF SeniorForCritical(bug_features, profile)
             THEN ScoreOne \div 10 ELSE 0)
          + PerformanceScore(profile, performance),
        ScoreOne)

\* C24: for features produced by extract_features_from_bug the +0.05 of a
\* mid-level developer is added only for a bug whose severity is exactly
\* "Low": for Critical, High, Medium and every unknown or missing severity
\* the complexity is at least 0.5 and every candidate's confidence is the
\* one of the score without the bonus.
C24_MidBonusOnlyForLow ==
    (calls > 0 /\ call.op = "score") =>
        LET f == call.bug_features
        IN  \A i \in DOMAIN call.developer_profiles :
                LET p == call.developer_profiles[i]
                    c == CHOOSE x \in Range(ret) : x.developer = p.name
                IN  /\ ExperienceScore(f, p) = (ScoreOne * 5) \div 100
                        => f.severity = "Low"
                    /\ f.severity # "Low" =>
                        /\ f.complexity_score >= 50
                        /\ c.confidence =
                               Confidence(ScoreWithoutMidBonus(
                                   f, p, historical_performance))
                    /\ c.confidence =
                           Confidence(Score(f, p, historical_performance))

\* A bug of the unknown severity "Blocker" with nothing else to it has the
\* complexity 0.5 exactly, and mid-level Tina is scored without the bonus.
C24_BlockerAtHalf ==
    /\ calls > 0
    /\ call.op = "score"
    /\ call.bug_features.severity = "Blocker"
    /\ call.bug_features.complexity_score = 50
    /\ \E i \in DOMAIN call.developer_profiles :
           /\ call.developer_profiles[i].name = "Tina"
           /\ call.developer_profiles[i].experience_level = "mid"
           /\ ExperienceScore(call.bug_features,
                              call.developer_profiles[i]) = 0
    /\ \E x \in Range(ret) :
           /\ x.developer = "Tina"
           /\ x.confidence = Confidence((ScoreOne * 15) \div 100)

\* The winners logged before the last assign_bug_to_developer call.
LoggedBeforeCall ==
    IF trace # <<>> /\ trace[1].developer_scores # <<>>
    THEN SubSeq(log, 1, Len(log) - 1) ELSE log

\* C25: a candidate's reason is the fallback "General assignment based on
\* availability" only if the developer's current workload is at least 3;
\* so on a fresh engine no candidate and no result of a call has the
\* fallback reason unless some developer had won three assignments before
\* the call.
C25_FallbackNeedsThree ==
    (calls > 0 /\ call.op = "assign") =>
        /\ \A c \in Scored :
               c.reason = S_General_assignment =>
                   \E p \in Range(trace[1].developer_profiles) :
                       /\ p.name = c.developer
                       /\ p.current_workload >= 3
                       /\ Count(LoggedBeforeCall, p.name) >= 3
        /\ (\/ ret.reason = S_General_assignment
            \/ /\ "alternatives" \in DOMAIN ret
               /\ \E a \in Range(ret.alternatives) :
                      a.reason = S_General_assignment)
              => \E n \in Range(LoggedBeforeCall) :
                     Count(LoggedBeforeCall, n) >= 3

\* Ben, who has no skills and no modules, won the first three bugs with
\* "Available capacity" and has just won the fourth with the fallback
\* reason.
C25_FourthWithFallback ==
    /\ calls = 4
    /\ call.op = "assign"
    /\ log = <<"Ben", "Ben", "Ben", "Ben">>
    /\ ret.developer = "Ben"
    /\ ret.reason = S_General_assignment
    /\ trace[1].developer_profiles[1].current_workload = 3

\* C26: assign_bug called with a bug id that has no BugReport record fails
\* with the 404 "Bug report not found" and changes nothing: no Assignment
\* record is created, no bug report is modified and no external ticket is
\* attempted (all the call does is raise).
C26_UnknownBugChangesNothing ==
    [][(/\ calls' # calls
        /\ request'.op = "assign_bug"
        /\ request'.assignment.bug_id \notin DOMAIN bug_reports) =>
          /\ response' = [status |-> 404, detail |-> "Bug report not found"]
          /\ assignments' = assignments
          /\ bug_reports' = bug_reports
          /\ journal' = <<Event("raise", 1, request'.assignment.bug_id,
                                request'.assignment.action, "404")>>]_vars

\* An approval of bug 3 for Zed arrived when the rows 1 and 2 of an upload
\* were stored: it got the 404, both rows are pending with no assigned
\* developer, no Assignment exists and the journal holds the raise alone.
C26_RefusedBesideRows ==
    /\ request.op = "assign_bug"
    /\ request.assignment.bug_id = 3
    /\ request.assignment.action = "approved"
    /\ response.status = 404
    /\ DOMAIN bug_reports = {1, 2}
    /\ bug_reports[1].status = "pending"
    /\ bug_reports[2].status = "pending"
    /\ bug_reports[2].assigned_developer = None
    /\ assignments = EmptyMap
    /\ Len(journal) = 1

\* C27: bulk_assign_bugs processes every request of its input in order and
\* returns processed equal to the number of requests: a request whose bug
\* id has no row gets an error entry with its bug_id at its position, and
\* every request whose bug has a row is applied, the later ones too (its
\* entry is the Assignment record committed for it, the records are
\* numbered in the order of the requests, and the row has the request's
\* action as its status).
C27_BulkProcessesAll ==
    [][(calls' # calls /\ request'.op = "bulk_assign_bugs") =>
          LET requests == request'.assignments
              results  == response'.body.results
          IN  /\ response'.status = 200
              /\ response'.body.processed = Len(requests)
              /\ Len(results) = Len(requests)
              /\ DOMAIN bug_reports' = DOMAIN bug_reports
              /\ \A k \in DOMAIN requests :
                     IF requests[k].bug_id \notin DOMAIN bug_reports
                     THEN /\ "error" \in DOMAIN results[k]
                          /\ results[k].bug_id = requests[k].bug_id
                     ELSE /\ "error" \notin DOMAIN results[k]
                          /\ results[k].bug_report_id = requests[k].bug_id
                          /\ results[k].action = requests[k].action
                          /\ results[k].id \notin DOMAIN assignments
                          /\ results[k].id \in DOMAIN assignments'
                          /\ assignments'[results[k].id] = results[k]
                          /\ (\A j \in DOMAIN requests :
                                  j > k => requests[j].bug_id # requests[k].bug_id)
                                => bug_reports'[requests[k].bug_id].status
                                       = requests[k].action
                          /\ \A j \in 1..(k - 1) :
                                 "error" \notin DOMAIN results[j]
                                     => results[j].id < results[k].id
              /\ Cardinality(DOMAIN assignments' \ DOMAIN assignments)
                     = Cardinality({k \in DOMAIN requests :
                                       requests[k].bug_id \in DOMAIN bug_reports})
              /\ \A i, j \in DOMAIN journal' :
                     i < j => journal'[i].call <= journal'[j].call]_vars

\* A bulk of three requests met the rows 1 and 2: the second, for bug 3,
\* has an error entry and the third, after it, made Zed the developer of
\* bug 2.
C27_AppliedAfterFailure ==
    /\ request.op = "bulk_assign_bugs"
    /\ Len(request.assignments) = 3
    /\ response.body.processed = 3
    /\ DOMAIN bug_reports = {1, 2}
    /\ response.body.results[2] = [bug_id |-> 3, error |-> 404]
    /\ response.body.results[3].bug_report_id = 2
    /\ response.body.results[3].assigned_developer = "Zed"
    /\ bug_reports[2].status = "approved"
    /\ bug_reports[2].assigned_developer = <<"Zed">>
    /\ bug_reports[1].status = "approved"
    /\ Cardinality(DOMAIN assignments) = 2

\* The names of a developer list.
NamesOf(developers) == {NameOf(d) : d \in Range(developers)}

\* C28: extract_bug_reports never yields an "Unassigned" prediction: it
\* returns the empty list (no text) or one record per extracted bug, the
\* 3 mock bugs when none is extracted, and as an empty developer extraction
\* is replaced by the 4 default developers, every record's
\* predicted_developer is the name of a developer of the list that was
\* used; the rows upload_pdf stores carry these predictions.
C28_NeverUnassigned ==
    [][(calls' # calls /\ request'.op = "upload_pdf" /\ request'.file.pdf) =>
          LET file == request'.file
          IN  IF ~file.text
              THEN /\ response'.body = <<>>
                   /\ bug_reports' = bug_reports
                   /\ ret' = ret
              ELSE /\ call'.op = "batch"
                   /\ call'.bugs = (IF file.bugs = <<>> THEN _get_mock_bugs
                                    ELSE file.bugs)
                   /\ file.bugs = <<>> => Len(call'.bugs) = 3
                   /\ call'.developers =
                          (IF file.developers = <<>>
                           THEN _get_default_developers ELSE file.developers)
                   /\ file.developers = <<>> => Len(call'.developers) = 4
                   /\ Len(ret') = Len(call'.bugs)
                   /\ Len(response'.body) = Len(ret')
                   /\ \A k \in DOMAIN ret' :
                          /\ ret'[k].title = call'.bugs[k].title
                          /\ ret'[k].predicted_developer # "Unassigned"
                          /\ ret'[k].predicted_developer
                                 \in NamesOf(call'.developers)
                          /\ response'.body[k].row.predicted_developer
                                 = ret'[k].predicted_developer]_vars

\* A readable .pdf with no bug and no developer in it was uploaded: the 3
\* mock bugs were assigned among the 4 default developers.
C28_MockBugsDefaultDevelopers ==
    /\ request.op = "upload_pdf"
    /\ request.file.pdf
    /\ request.file.text
    /\ request.file.bugs = <<>>
    /\ request.file.developers = <<>>
    /\ call.op = "batch"
    /\ Len(ret) = 3
    /\ Len(call.developers) = 4
    /\ \A k \in DOMAIN ret :
           ret[k].predicted_developer \in NamesOf(_get_default_developers)
    /\ Len(bug_reports) = 3

\* C29: after any sequence of update_historical_performance calls every
\* entry of the performance map has total_assignments >= 1,
\* 0 <= successful_assignments <= total_assignments and success_rate =
\* successful_assignments / total_assignments, the divisor of both
\* divisions being total_assignments >= 1: after the first update the rate
\* is 0 or 1 and not the default 0.8, and one successful resolution gives a
\* rate above 0.85.
C29_PerformanceEntries ==
    \A n \in DOMAIN historical_performance :
        LET perf == historical_performance[n]
        IN  /\ perf.total_assignments >= 1
            /\ perf.successful_assignments >= 0
            /\ perf.successful_assignments <= perf.total_assignments
            /\ perf.success_rate
                   = Ratio(perf.successful_assignments, perf.total_assignments)
            /\ perf.success_rate[1] * perf.total_assignments
                   = perf.successful_assignments * perf.success_rate[2]
            /\ perf.success_rate[2] >= 1
            /\ perf.avg_resolution_time[2] >= 1
            /\ perf.total_assignments = 1 =>
                   /\ perf.success_rate \in {<<0, 1>>, <<1, 1>>}
                   /\ perf.successful_assignments = 1 =>
                          perf.success_rate[1] * 100
                              > 85 * perf.success_rate[2]

\* Sam has one resolution, a success, and the rate 1; Tina has two, one of
\* them a success, and the rate 1/2.
C29_OneOfTwoAndOneOfOne ==
    /\ DOMAIN historical_performance = {"Tina", "Sam"}
    /\ historical_performance["Sam"].total_assignments = 1
    /\ historical_performance["Sam"].success_rate = <<1, 1>>
    /\ historical_performance["Tina"].total_assignments = 2
    /\ historical_performance["Tina"].successful_assignments = 1
    /\ historical_performance["Tina"].success_rate = <<1, 2>>

=============================================================================
